---- MODULE Spec2Model ----
(***************************************************************************)
(* Model of the SFTP "latest file" audit tool.                             *)
(*                                                                         *)
(*   src/src/sftp_connector.py  SFTPConnector: listing, candidate          *)
(*                              collection and the four selection calls    *)
(*   src/src/config.py          load_multiple_configs_from_file            *)
(*   src/main.py                collect_latest_file_details and main       *)
(*   src/check_date_range_files.py                                         *)
(*                              check_files_for_date_range, main and the   *)
(*                              workbook of a date                         *)
(*                                                                         *)
(* Strings are tuples of one-character strings, so that lower() and        *)
(* startswith() are computed.  Python's None is the empty tuple: every     *)
(* file name of a real listing is non-empty, so `if name and dt` is        *)
(* `name # <<>> /\ dt # <<>>`.  A modification time is a whole number of   *)
(* seconds; the local calendar date and the formatted time stamp are       *)
(* computed from it.                                                       *)
(***************************************************************************)
EXTENDS Integers, Sequences, FiniteSets, TLC

(***************************************************************************)
(* Bounds of the model.                                                    *)
(***************************************************************************)
\* longest directory listing drawn for the selection specification
MaxEntries == 2
\* largest modification time (in seconds) of an entry
MaxMtime == 2
\* seconds in one calendar day (scaled down from 86400)
SecondsPerDay == 2
\* offset of local time from the epoch clock, in seconds
TzOffset == 1
\* the calendar day of the run: datetime.datetime.now().date()
Today == 1
\* most calls the servers fail in one run (connect or listing)
MaxFailures == 2

(***************************************************************************)
(* Strings.                                                                *)
(***************************************************************************)
None == <<>>

\* The characters of the model's texts: printable ASCII without the grave
\* accent, the white space and the decimal digits below, the letters of
\* Latin-1 but U+00FF, some Greek letters, the digraph letters U+01C4 to
\* U+01C6 and the capital sharp s.  The operators on characters below are
\* defined on these characters only.  A string of this module cannot hold
\* every character of Unicode: the sets WhiteSpace, LineBreaks and Digits
\* hold every character of their class that it can hold.

\* the decimal digits (class \d, category Nd), one row for each script, in
\* the order of their values 0 to 9: ASCII, Extended Arabic-Indic, Nko,
\* Bengali, Gujarati, Tamil, Kannada, Sinhala Lith, Lao, Myanmar Shan, Khmer,
\* New Tai Lue, Tai Tham Hora, Tai Tham Tham, Sundanese, Saurashtra,
\* Javanese, Myanmar Tai Laing, Meetei Mayek
DigitRows ==
   << <<"0", "1", "2", "3", "4", "5", "6", "7", "8", "9">>,
      <<"۰", "۱", "۲", "۳", "۴", "۵", "۶", "۷", "۸", "۹">>,
      <<"߀", "߁", "߂", "߃", "߄", "߅", "߆", "߇", "߈", "߉">>,
      <<"০", "১", "২", "৩", "৪", "৫", "৬", "৭", "৮", "৯">>,
      <<"૦", "૧", "૨", "૩", "૪", "૫", "૬", "૭", "૮", "૯">>,
      <<"௦", "௧", "௨", "௩", "௪", "௫", "௬", "௭", "௮", "௯">>,
      <<"೦", "೧", "೨", "೩", "೪", "೫", "೬", "೭", "೮", "೯">>,
      <<"෦", "෧", "෨", "෩", "෪", "෫", "෬", "෭", "෮", "෯">>,
      <<"໐", "໑", "໒", "໓", "໔", "໕", "໖", "໗", "໘", "໙">>,
      <<"႐", "႑", "႒", "႓", "႔", "႕", "႖", "႗", "႘", "႙">>,
      <<"០", "១", "២", "៣", "៤", "៥", "៦", "៧", "៨", "៩">>,
      <<"᧐", "᧑", "᧒", "᧓", "᧔", "᧕", "᧖", "᧗", "᧘", "᧙">>,
      <<"᪀", "᪁", "᪂", "᪃", "᪄", "᪅", "᪆", "᪇", "᪈", "᪉">>,
      <<"᪐", "᪑", "᪒", "᪓", "᪔", "᪕", "᪖", "᪗", "᪘", "᪙">>,
      <<"᮰", "᮱", "᮲", "᮳", "᮴", "᮵", "᮶", "᮷", "᮸", "᮹">>,
      <<"꣐", "꣑", "꣒", "꣓", "꣔", "꣕", "꣖", "꣗", "꣘", "꣙">>,
      <<"꧐", "꧑", "꧒", "꧓", "꧔", "꧕", "꧖", "꧗", "꧘", "꧙">>,
      <<"꧰", "꧱", "꧲", "꧳", "꧴", "꧵", "꧶", "꧷", "꧸", "꧹">>,
      <<"꯰", "꯱", "꯲", "꯳", "꯴", "꯵", "꯶", "꯷", "꯸", "꯹">> >>

\* the class [0-9], and the class \d
AsciiDigits == {"0", "1", "2", "3", "4", "5", "6", "7", "8", "9"}
Digits == {DigitRows[r][i] : r \in DOMAIN DigitRows, i \in 1..10}

\* the white space of str.strip(): tab, line feed, vertical tab, form feed,
\* carriage return, the separators U+001C to U+001F, blank, next line
\* (U+0085), no-break space (U+00A0) and Ogham space mark (U+1680)
WhiteSpace ==
    {"\t", "\n", "", "\f", "\r", "", "", "", "", " ",
     "", " ", " "}

\* the characters at which str.splitlines() ends a line: line feed, vertical
\* tab, form feed, carriage return, the separators U+001C to U+001E and
\* next line (U+0085)
LineBreaks == {"\n", "", "\f", "\r", "", "", "", ""}

\* the characters that str.lower() and str.upper() both leave as they are
NoCase ==
    {"!", "\"", "#", "$", "%", "&", "'", "(", ")", "*", "+", ",", "-", ".",
     "/", ":", ";", "<", "=", ">", "?", "@", "[", "\\", "]", "^", "_", "{",
     "|", "}", "~"} \cup WhiteSpace \cup Digits

\* the letters that str.lower() leaves and str.upper() changes
SmallLetters ==
    {"a", "b", "c", "d", "e", "f", "g", "h", "i", "j", "k", "l", "m", "n",
     "o", "p", "q", "r", "s", "t", "u", "v", "w", "x", "y", "z", "ß", "à",
     "á", "â", "ã", "ä", "å", "æ", "ç", "è", "é", "ê", "ë", "ì", "í", "î",
     "ï", "ð", "ñ", "ò", "ó", "ô", "õ", "ö", "ø", "ù", "ú", "û", "ü", "ý",
     "þ", "µ", "α", "μ", "σ", "ς", "ω", "ǆ"}

\* the letters that str.upper() leaves and str.lower() changes
CapitalLetters ==
    {"A", "B", "C", "D", "E", "F", "G", "H", "I", "J", "K", "L", "M", "N",
     "O", "P", "Q", "R", "S", "T", "U", "V", "W", "X", "Y", "Z", "À", "Á",
     "Â", "Ã", "Ä", "Å", "Æ", "Ç", "È", "É", "Ê", "Ë", "Ì", "Í", "Î", "Ï",
     "Ð", "Ñ", "Ò", "Ó", "Ô", "Õ", "Ö", "Ø", "Ù", "Ú", "Û", "Ü", "Ý", "Þ",
     "Α", "Μ", "Σ", "Ω", "Ǆ", "ẞ"}

\* the cased characters (Unicode property Cased); U+01C5 is changed by both
Cased == SmallLetters \cup CapitalLetters \cup {"ǅ"}

\* the characters that the Final_Sigma rule skips (property Case_Ignorable)
CaseIgnorable == {"'", ".", ":", "^"}

\* str.lower() on one character
LowerChar(c) ==
    CASE c \in SmallLetters \/ c \in NoCase -> c
      [] c = "A" -> "a" [] c = "B" -> "b" [] c = "C" -> "c"
      [] c = "D" -> "d" [] c = "E" -> "e" [] c = "F" -> "f"
      [] c = "G" -> "g" [] c = "H" -> "h" [] c = "I" -> "i"
      [] c = "J" -> "j" [] c = "K" -> "k" [] c = "L" -> "l"
      [] c = "M" -> "m" [] c = "N" -> "n" [] c = "O" -> "o"
      [] c = "P" -> "p" [] c = "Q" -> "q" [] c = "R" -> "r"
      [] c = "S" -> "s" [] c = "T" -> "t" [] c = "U" -> "u"
      [] c = "V" -> "v" [] c = "W" -> "w" [] c = "X" -> "x"
      [] c = "Y" -> "y" [] c = "Z" -> "z" [] c = "À" -> "à"
      [] c = "Á" -> "á" [] c = "Â" -> "â" [] c = "Ã" -> "ã"
      [] c = "Ä" -> "ä" [] c = "Å" -> "å" [] c = "Æ" -> "æ"
      [] c = "Ç" -> "ç" [] c = "È" -> "è" [] c = "É" -> "é"
      [] c = "Ê" -> "ê" [] c = "Ë" -> "ë" [] c = "Ì" -> "ì"
      [] c = "Í" -> "í" [] c = "Î" -> "î" [] c = "Ï" -> "ï"
      [] c = "Ð" -> "ð" [] c = "Ñ" -> "ñ" [] c = "Ò" -> "ò"
      [] c = "Ó" -> "ó" [] c = "Ô" -> "ô" [] c = "Õ" -> "õ"
      [] c = "Ö" -> "ö" [] c = "Ø" -> "ø" [] c = "Ù" -> "ù"
      [] c = "Ú" -> "ú" [] c = "Û" -> "û" [] c = "Ü" -> "ü"
      [] c = "Ý" -> "ý" [] c = "Þ" -> "þ" [] c = "Α" -> "α"
      [] c = "Μ" -> "μ" [] c = "Σ" -> "σ" [] c = "Ω" -> "ω"
      [] c = "Ǆ" -> "ǆ" [] c = "ẞ" -> "ß" [] c = "ǅ" -> "ǆ"

\* str.upper() on one character: a string, the sharp s becomes two letters
UpperChar(c) ==
    CASE c \in CapitalLetters \/ c \in NoCase -> <<c>>
      [] c = "a" -> <<"A">> [] c = "b" -> <<"B">> [] c = "c" -> <<"C">>
      [] c = "d" -> <<"D">> [] c = "e" -> <<"E">> [] c = "f" -> <<"F">>
      [] c = "g" -> <<"G">> [] c = "h" -> <<"H">> [] c = "i" -> <<"I">>
      [] c = "j" -> <<"J">> [] c = "k" -> <<"K">> [] c = "l" -> <<"L">>
      [] c = "m" -> <<"M">> [] c = "n" -> <<"N">> [] c = "o" -> <<"O">>
      [] c = "p" -> <<"P">> [] c = "q" -> <<"Q">> [] c = "r" -> <<"R">>
      [] c = "s" -> <<"S">> [] c = "t" -> <<"T">> [] c = "u" -> <<"U">>
      [] c = "v" -> <<"V">> [] c = "w" -> <<"W">> [] c = "x" -> <<"X">>
      [] c = "y" -> <<"Y">> [] c = "z" -> <<"Z">> [] c = "ß" -> <<"S", "S">>
      [] c = "à" -> <<"À">> [] c = "á" -> <<"Á">> [] c = "â" -> <<"Â">>
      [] c = "ã" -> <<"Ã">> [] c = "ä" -> <<"Ä">> [] c = "å" -> <<"Å">>
      [] c = "æ" -> <<"Æ">> [] c = "ç" -> <<"Ç">> [] c = "è" -> <<"È">>
      [] c = "é" -> <<"É">> [] c = "ê" -> <<"Ê">> [] c = "ë" -> <<"Ë">>
      [] c = "ì" -> <<"Ì">> [] c = "í" -> <<"Í">> [] c = "î" -> <<"Î">>
      [] c = "ï" -> <<"Ï">> [] c = "ð" -> <<"Ð">> [] c = "ñ" -> <<"Ñ">>
      [] c = "ò" -> <<"Ò">> [] c = "ó" -> <<"Ó">> [] c = "ô" -> <<"Ô">>
      [] c = "õ" -> <<"Õ">> [] c = "ö" -> <<"Ö">> [] c = "ø" -> <<"Ø">>
      [] c = "ù" -> <<"Ù">> [] c = "ú" -> <<"Ú">> [] c = "û" -> <<"Û">>
      [] c = "ü" -> <<"Ü">> [] c = "ý" -> <<"Ý">> [] c = "þ" -> <<"Þ">>
      [] c = "µ" -> <<"Μ">> [] c = "α" -> <<"Α">> [] c = "μ" -> <<"Μ">>
      [] c = "σ" -> <<"Σ">> [] c = "ς" -> <<"Σ">> [] c = "ω" -> <<"Ω">>
      [] c = "ǆ" -> <<"Ǆ">> [] c = "ǅ" -> <<"Ǆ">>

\* the Final_Sigma context of str.lower(): the capital sigma at place i comes
\* after a cased letter and no cased letter comes after it, the characters
\* of CaseIgnorable between them not counted
FinalSigma(s, i) ==
    LET before == {j \in 1..(i - 1) : s[j] \notin CaseIgnorable}
        after == {j \in (i + 1)..Len(s) : s[j] \notin CaseIgnorable}
    IN /\ before # {}
       /\ s[CHOOSE j \in before : \A k \in before : k <= j] \in Cased
       /\ \/ after = {}
          \/ s[CHOOSE j \in after : \A k \in after : j <= k] \notin Cased

\* str.lower(): each character is lowered, the capital sigma by its place
Lower(s) ==
    [i \in 1..Len(s) |->
       IF s[i] = "Σ" /\ FinalSigma(s, i) THEN "ς" ELSE LowerChar(s[i])]

\* the case folding of re.IGNORECASE: two characters match when they fold
\* to the same character
FoldChar(c) ==
    CASE c = "µ" -> "μ"
      [] c = "ς" -> "σ"
      [] OTHER -> LowerChar(c)

\* str.startswith(p)
StartsWith(s, p) == Len(p) <= Len(s) /\ SubSeq(s, 1, Len(p)) = p

\* `p in s` for strings: p is a substring of s
Contains(s, p) ==
    \E i \in 0..(Len(s) - Len(p)) : SubSeq(s, i + 1, i + Len(p)) = p

\* mutant: the filter is matched anywhere in the name, not at its start
StartsWithAny_contains(name, lowered) ==
    \E i \in 1..Len(lowered) : Contains(Lower(name), lowered[i])

\* f.filename.lower().startswith(s) for some s of an already lowered list
StartsWithAny(name, lowered) ==
    \E i \in 1..Len(lowered) : StartsWith(Lower(name), lowered[i])

\* [s.lower() for s in (name_filters or []) if s]
RECURSIVE LoweredFilters(_)
LoweredFilters(fs) ==
    IF fs = <<>> THEN <<>>
    ELSE IF Head(fs) = <<>> THEN LoweredFilters(Tail(fs))
    ELSE <<Lower(Head(fs))>> \o LoweredFilters(Tail(fs))

(***************************************************************************)
(* Time.                                                                   *)
(***************************************************************************)
\* datetime.datetime.fromtimestamp(m).date(): the local calendar day
ToLocalDate(m) == (m + TzOffset) \div SecondsPerDay

\* fromtimestamp(m).strftime('%m/%d/%Y %H:%M:%S'): day and time of day
FormatTs(m) == <<ToLocalDate(m), (m + TzOffset) % SecondsPerDay>>

(***************************************************************************)
(* Remote directory trees.                                                 *)
(*                                                                         *)
(* An entry is [filename, kind, st_mtime]; kind "REG" is S_ISREG, "DIR" is *)
(* S_ISDIR and "LNK" is neither.  A tree is [exists, base, sub]: whether   *)
(* the path exists, the listing of the path, and the listing of each       *)
(* subdirectory by name.                                                   *)
(***************************************************************************)
IsReg(e) == e.kind = "REG"
IsDir(e) == e.kind = "DIR"

\* outcome of a call: a value, or an exception
Ok(v, n) == [exc |-> FALSE, val |-> v, n |-> n]
Raise(n) == [exc |-> TRUE, val |-> <<>>, n |-> n]

\* SFTPConnector.list_files_in_folder.  sftp: the session is open;
\* exists: the path exists (FileNotFoundError otherwise); fails: the server
\* answers this call with another error; k: the calls made so far.
ListFilesInFolder(sftp, exists, fails, listing, k) ==
    IF ~sftp THEN Raise(k)
    ELSE IF fails THEN Raise(k + 1)
    ELSE IF ~exists THEN Ok(<<>>, k + 1)
    ELSE Ok(listing, k + 1)

\* the loop over matched_dirs of _collect_candidate_files: the i-th matched
\* directory is listed by call k + i; a failing call is skipped
RECURSIVE CollectFromDirs(_, _, _, _, _)
CollectFromDirs(sftp, tree, dirs, k, F) ==
    IF dirs = <<>> THEN <<>>
    ELSE LET d == Head(dirs)
             r == ListFilesInFolder(sftp, TRUE, (k + 1) \in F,
                                    tree.sub[d.filename], k)
         IN (IF r.exc THEN <<>> ELSE SelectSeq(r.val, IsReg))
            \o CollectFromDirs(sftp, tree, Tail(dirs), k + 1, F)

\* mutant: the matching subdirectories are listed also when base files match
CollectFromListing_always(sftp, tree, name_filters, F, r) ==
    IF r.exc THEN Raise(r.n)
    ELSE
    LET lowered == LoweredFilters(name_filters)
        Matches(e) == StartsWithAny(e.filename, lowered)
        regs == SelectSeq(r.val, IsReg)
        files == IF lowered # <<>> /\ regs # <<>>
                 THEN SelectSeq(regs, Matches) ELSE regs
        matched_dirs == SelectSeq(SelectSeq(r.val, IsDir), Matches)
    IN IF lowered # <<>>
       THEN Ok(files \o CollectFromDirs(sftp, tree, matched_dirs, r.n, F),
               r.n + Len(matched_dirs))
       ELSE Ok(files, r.n)

\* _collect_candidate_files after its first listing call r (lines 51-74)
CollectFromListing(sftp, tree, name_filters, F, r) ==
    IF r.exc THEN Raise(r.n)
    ELSE
    LET lowered == LoweredFilters(name_filters)
        Matches(e) == StartsWithAny(e.filename, lowered)
        regs == SelectSeq(r.val, IsReg)
        files == IF lowered # <<>> /\ regs # <<>>
                 THEN SelectSeq(regs, Matches) ELSE regs
        matched_dirs == SelectSeq(SelectSeq(r.val, IsDir), Matches)
    IN IF files # <<>> THEN Ok(files, r.n)
       ELSE IF lowered # <<>>
       THEN Ok(CollectFromDirs(sftp, tree, matched_dirs, r.n, F),
               r.n + Len(matched_dirs))
       ELSE Ok(<<>>, r.n)

\* SFTPConnector._collect_candidate_files.  k: listing calls made before
\* this one; F: the numbers of the listing calls the server fails.
CollectCandidateFiles(sftp, tree, name_filters, k, F) ==
    CollectFromListing(sftp, tree, name_filters, F,
                       ListFilesInFolder(sftp, tree.exists, (k + 1) \in F,
                                         tree.base, k))

\* mutant: the first listed entry, whatever its mtime
MaxByMtime_first(files) == files[1]

\* max(files, key=lambda f: f.st_mtime): the first entry of greatest mtime
MaxByMtime(files) ==
    LET IsMax(i) == \A j \in 1..Len(files) :
                        files[j].st_mtime <= files[i].st_mtime
        first == CHOOSE i \in 1..Len(files) :
                     IsMax(i) /\ \A j \in 1..(i - 1) : ~IsMax(j)
    IN files[first]

\* (latest_file.filename, latest_dt)
FileInfo(f) == <<f.filename, FormatTs(f.st_mtime)>>
NoneInfo == <<None, None>>

\* lines 84-89: the newest of the candidates c, or (None, None)
LatestOf(c) ==
    IF c.exc THEN Raise(c.n)
    ELSE IF c.val = <<>> THEN Ok(NoneInfo, c.n)
    ELSE Ok(FileInfo(MaxByMtime(c.val)), c.n)

\* SFTPConnector.get_latest_file_info
GetLatestFileInfo(sftp, tree, name_filters, k, F) ==
    LatestOf(CollectCandidateFiles(sftp, tree, name_filters, k, F))

\* mutant: `<=` for `<` in the date test
LatestBeforeOf_le(c, before_date) ==
    LatestOf([c EXCEPT !.val =
                SelectSeq(c.val, LAMBDA f :
                              ToLocalDate(f.st_mtime) <= before_date)])

\* lines 94-107: the newest of the candidates c dated before before_date
LatestBeforeOf(c, before_date) ==
    LatestOf([c EXCEPT !.val =
                SelectSeq(c.val, LAMBDA f :
                              ToLocalDate(f.st_mtime) < before_date)])

\* SFTPConnector.get_latest_file_info_before_date
GetLatestFileInfoBeforeDate(sftp, tree, before_date, name_filters, k, F) ==
    LatestBeforeOf(CollectCandidateFiles(sftp, tree, name_filters, k, F),
                   before_date)

\* mutant: `>=` for `==` in the date test
LatestOnOf_ge(c, on_date) ==
    LatestOf([c EXCEPT !.val =
                SelectSeq(c.val, LAMBDA f :
                              ToLocalDate(f.st_mtime) >= on_date)])

\* lines 112-125: the newest of the candidates c dated on_date
LatestOnOf(c, on_date) ==
    LatestOf([c EXCEPT !.val =
                SelectSeq(c.val, LAMBDA f :
                              ToLocalDate(f.st_mtime) = on_date)])

\* SFTPConnector.get_latest_file_info_on_date
GetLatestFileInfoOnDate(sftp, tree, on_date, name_filters, k, F) ==
    LatestOnOf(CollectCandidateFiles(sftp, tree, name_filters, k, F),
               on_date)

\* no date given (on_date=None)
NoDate == -1

\* mutant: a list of results, one appended for every prefix
DictSet_append(d, key, v) == Append(d, <<key, v>>)

\* result[p] = v on an insertion-ordered dict, kept as a list of pairs
DictSet(d, key, v) ==
    IF \E i \in 1..Len(d) : d[i][1] = key
    THEN [i \in 1..Len(d) |-> IF d[i][1] = key THEN <<key, v>> ELSE d[i]]
    ELSE Append(d, <<key, v>>)

\* lines 137-148: the value stored for one prefix, from its candidates c
PrefixValue(c, today) ==
    IF today # NoDate
    THEN LatestOnOf(c, today).val
    ELSE LatestOf(c).val

\* the loop `for p in lowered` of get_latest_files_per_prefix
RECURSIVE PerPrefixLoop(_, _, _, _, _, _, _)
PerPrefixStep(sftp, tree, lowered, today, F, result, c) ==
    IF c.exc THEN Raise(c.n)
    ELSE PerPrefixLoop(sftp, tree, Tail(lowered), today, c.n, F,
                       DictSet(result, Head(lowered), PrefixValue(c, today)))

PerPrefixLoop(sftp, tree, lowered, today, k, F, result) ==
    IF lowered = <<>> THEN Ok(result, k)
    ELSE PerPrefixStep(sftp, tree, lowered, today, F, result,
                       CollectCandidateFiles(sftp, tree, <<Head(lowered)>>,
                                             k, F))

\* SFTPConnector.get_latest_files_per_prefix
GetLatestFilesPerPrefix(sftp, tree, prefixes, on_date, k, F) ==
    PerPrefixLoop(sftp, tree, LoweredFilters(prefixes), on_date, k, F, <<>>)

(***************************************************************************)
(* Rows of the report (src/main.py).                                       *)
(*                                                                         *)
(* A row is [account, folder, name, date]: "Account Name", "Folder",       *)
(* "Latest File Name" and "Latest File Date".  A real date is the pair     *)
(* FormatTs gives; a placeholder or error text is a one-element tuple.     *)
(***************************************************************************)
Dash == <<"-">>
ConnectionError == <<"Connection error">>
FolderNotConfigured == <<"Folder not configured">>
ListingError == <<"Error">>

Row(account, folder, name, date) ==
    [account |-> account, folder |-> folder, name |-> name, date |-> date]

\* _matches_filter(value, pattern)
MatchesFilter(value, pattern) ==
    IF pattern = None THEN TRUE ELSE Contains(Lower(value), Lower(pattern))

\* f"{folder_label} - {pfx_lower}"
PrefixLabel(folder_label, pfx_lower) ==
    folder_label \o <<" ", "-", " ">> \o pfx_lower

\* what the body of one folder's try block did: the rows it appended, the
\* listing calls it made, and whether it ended in the except clause
Done(rows, n) == [exc |-> FALSE, rows |-> rows, n |-> n]
Failed(rows, n) == [exc |-> TRUE, rows |-> rows, n |-> n]

\* a selection result that names a file: `if fname and fdt`
Found(info) == info[1] # None /\ info[2] # None

\* the loop `for pfx_lower, (fname, fdt) in per.items()` (lines 105-156)
RECURSIVE PrefixRows(_, _, _, _, _, _, _)
\* mutant: a prefix for which nothing is found gets no row
PrefixFallback_skip(tree, account, folder_label, per, F, rows, fb) ==
    IF fb.exc THEN Failed(rows, fb.n)
    ELSE PrefixRows(tree, account, folder_label, Tail(per), fb.n, F,
                    IF Found(fb.val)
                    THEN Append(rows,
                                Row(account,
                                    PrefixLabel(folder_label, Head(per)[1]),
                                    fb.val[1], fb.val[2]))
                    ELSE rows)

\* lines 123-156: the prefix has no file of the date; fb is the result of
\* the fallback lookup
PrefixFallback(tree, account, folder_label, per, F, rows, fb) ==
    IF fb.exc THEN Failed(rows, fb.n)
    ELSE PrefixRows(tree, account, folder_label, Tail(per), fb.n, F,
                    Append(rows,
                           Row(account,
                               PrefixLabel(folder_label, Head(per)[1]),
                               IF Found(fb.val) THEN fb.val[1] ELSE Dash,
                               IF Found(fb.val) THEN fb.val[2] ELSE Dash)))

PrefixRows(tree, account, folder_label, per, k, F, rows) ==
    IF per = <<>> THEN Done(rows, k)
    ELSE IF Found(Head(per)[2])
    THEN PrefixRows(tree, account, folder_label, Tail(per), k, F,
                    Append(rows,
                           Row(account,
                               PrefixLabel(folder_label, Head(per)[1]),
                               Head(per)[2][1], Head(per)[2][2])))
    ELSE PrefixFallback(tree, account, folder_label, per, F, rows,
                        GetLatestFileInfo(TRUE, tree, <<Head(per)[1]>>,
                                          k, F))

\* lines 105-157 once get_latest_files_per_prefix has returned per
FolderPrefixRows(tree, account, folder_label, F, per) ==
    IF per.exc THEN Failed(<<>>, per.n)
    ELSE PrefixRows(tree, account, folder_label, per.val, per.n, F, <<>>)

\* the branch `if filters and len(filters) >= 1` (lines 102-157)
FolderWithFilters(tree, account, folder_label, filters, today_only, on_date, F) ==
    FolderPrefixRows(tree, account, folder_label, F,
                     GetLatestFilesPerPrefix(
                         TRUE, tree, filters,
                         IF today_only THEN on_date ELSE NoDate, 0, F))

\* lines 215-260: nothing was found; diag is the listing made for the log
\* line, whose exception is dropped
NothingFound(account, folder_label, diag) ==
    Done(<<Row(account, folder_label, Dash, Dash)>>, diag.n)

\* mutant: the fallback file is reported without its time stamp
AfterFallback_mixed(tree, account, folder_label, F, fb) ==
    IF Found(fb.val)
    THEN Done(<<Row(account, folder_label, fb.val[1], Dash)>>, fb.n)
    ELSE NothingFound(account, folder_label,
                      ListFilesInFolder(TRUE, tree.exists, (fb.n + 1) \in F,
                                        tree.base, fb.n))

\* lines 198-260: after the fallback lookup fb
AfterFallback(tree, account, folder_label, F, fb) ==
    IF Found(fb.val)
    THEN Done(<<Row(account, folder_label, fb.val[1], fb.val[2])>>, fb.n)
    ELSE NothingFound(account, folder_label,
                      ListFilesInFolder(TRUE, tree.exists, (fb.n + 1) \in F,
                                        tree.base, fb.n))

\* lines 194-197: the exception of the fallback lookup is logged
Swallow(r) == IF r.exc THEN Ok(NoneInfo, r.n) ELSE r

\* lines 174-260: after the selection sel of the policy
AfterSelection(tree, account, folder_label, filters, today_only, previous_day, F, sel) ==
    IF sel.exc THEN Failed(<<>>, sel.n)
    ELSE IF Found(sel.val)
    THEN Done(<<Row(account, folder_label, sel.val[1], sel.val[2])>>, sel.n)
    ELSE AfterFallback(tree, account, folder_label, F,
                       IF today_only \/ previous_day
                       THEN Swallow(GetLatestFileInfo(TRUE, tree, filters,
                                                      sel.n, F))
                       ELSE Ok(NoneInfo, sel.n))

\* lines 159-173: the selection of the policy; today is now().date()
PolicySelection(tree, filters, today_only, previous_day, target_date, F) ==
    IF today_only
    THEN GetLatestFileInfoOnDate(TRUE, tree, target_date, filters, 0, F)
    ELSE IF previous_day
    THEN GetLatestFileInfoBeforeDate(TRUE, tree, target_date, filters, 0, F)
    ELSE GetLatestFileInfo(TRUE, tree, filters, 0, F)

\* the branch without filters (lines 159-260)
FolderWithoutFilters(tree, account, folder_label, filters, today_only, previous_day, on_date, today, F) ==
    AfterSelection(tree, account, folder_label, filters,
                   today_only, previous_day, F,
                   PolicySelection(tree, filters, today_only, previous_day,
                                   IF on_date # NoDate THEN on_date
                                   ELSE today, F))

\* mutant: the except clause logs the error and appends nothing
WithErrorRow_none(account, folder_label, r) ==
    [rows |-> r.rows, n |-> r.n]

\* lines 261-275: the except clause appends the error row
WithErrorRow(account, folder_label, r) ==
    IF r.exc
    THEN [rows |-> Append(r.rows,
                          Row(account, folder_label, Dash, ListingError)),
          n |-> r.n]
    ELSE [rows |-> r.rows, n |-> r.n]

\* the body of `for folder in folders` (lines 93-275): the rows appended for
\* one folder, the except clause included, and the listing calls made
ProcessFolder(tree, account, folder, today_only, previous_day, on_date, today, F) ==
    WithErrorRow(account, folder.label,
                 IF folder.filters # <<>>
                 THEN FolderWithFilters(tree, account, folder.label,
                                        folder.filters, today_only,
                                        on_date, F)
                 ELSE FolderWithoutFilters(tree, account, folder.label,
                                           folder.filters, today_only,
                                           previous_day, on_date, today, F))

(***************************************************************************)
(* Rows of the date range check (src/check_date_range_files.py).           *)
(*                                                                         *)
(* A row is [account, folder, day, name, date]: "Account Name", "Folder",  *)
(* "Date", "File Name" and "LastFileDate".                                 *)
(***************************************************************************)
NoFileFound == <<"No file found">>
NoFoldersConfigured == <<"No folders configured">>

DayRow(account, folder, day, name, date) ==
    [account |-> account, folder |-> folder, day |-> day, name |-> name,
     date |-> date]

\* f"{folder_label} ({prefix})"
PrefixTag(folder_label, prefix) ==
    folder_label \o <<" ", "(">> \o prefix \o <<")">>

\* lines 138-146, 160-167: the row of a selection result info
ResultRow(account, folder, day, info) ==
    DayRow(account, folder, day,
           IF info[1] # None THEN info[1] ELSE NoFileFound,
           IF info[2] # None THEN info[2] ELSE Dash)

\* lines 174-182: the except clause of one date's check
DayErrorRow(account, folder_label, day) ==
    DayRow(account, folder_label, day, Dash, ListingError)

\* lines 138-151: one row for each key of prefix_results
PrefixDayRows(account, folder_label, day, per) ==
    IF per.exc
    THEN Failed(<<DayErrorRow(account, folder_label, day)>>, per.n)
    ELSE Done([i \in 1..Len(per.val) |->
                 ResultRow(account, PrefixTag(folder_label, per.val[i][1]),
                           day, per.val[i][2])],
              per.n)

\* lines 154-172: the row of a folder without filters
SingleDayRow(account, folder_label, day, sel) ==
    IF sel.exc
    THEN Failed(<<DayErrorRow(account, folder_label, day)>>, sel.n)
    ELSE Done(<<ResultRow(account, folder_label, day, sel.val)>>, sel.n)

\* lines 129-182: one folder checked for one date.  k: the listing calls
\* made for the folder so far.
CheckOnDate(tree, account, folder, check_date, k, F) ==
    IF folder.filters # <<>>
    THEN PrefixDayRows(account, folder.label, check_date,
                       GetLatestFilesPerPrefix(TRUE, tree, folder.filters,
                                               check_date, k, F))
    ELSE SingleDayRow(account, folder.label, check_date,
                      GetLatestFileInfoOnDate(TRUE, tree, check_date, None,
                                              k, F))

(***************************************************************************)
(* Inputs of the selection calls.                                          *)
(***************************************************************************)
Names == {<<"A", "x">>, <<"a", "y">>, <<"b">>}
Kinds == {"REG", "DIR"}
Mtimes == 0..MaxMtime
Entries == [filename : Names, kind : Kinds, st_mtime : Mtimes]

\* a directory listing: entries of distinct names, in the server's order
Listings ==
    UNION {{l \in [1..n -> Entries] :
               \A i, j \in 1..n : i # j => l[i].filename # l[j].filename} :
           n \in 0..MaxEntries}

File(nm, m) == [filename |-> nm, kind |-> "REG", st_mtime |-> m]
Dir(nm, m) == [filename |-> nm, kind |-> "DIR", st_mtime |-> m]
Lnk(nm, m) == [filename |-> nm, kind |-> "LNK", st_mtime |-> m]

\* the contents of the subdirectories, by directory name
SubChoices ==
    { [nm \in Names |-> <<>>],
      [nm \in Names |->
         CASE nm = <<"A", "x">> -> <<File(<<"b">>, 2), File(<<"a", "y">>, 0)>>
           [] nm = <<"a", "y">> -> <<File(<<"A", "x">>, 1)>>
           [] OTHER -> <<Dir(<<"b">>, 2), Lnk(<<"a", "y">>, 2)>>],
      [nm \in Names |->
         CASE nm = <<"A", "x">> -> <<File(<<"b">>, 1)>>
           [] nm = <<"a", "y">> -> <<File(<<"b">>, 1), File(<<"a", "y">>, 1)>>
           [] OTHER -> <<File(<<"A", "x">>, 2), Dir(<<"a", "y">>, 2)>>] }

Trees == [exists : {TRUE}, base : Listings, sub : SubChoices]

\* lists of name filters: none, one, upper case, not a prefix of any name,
\* two, with an empty string, two that differ by case only
FilterLists ==
    { <<>>, << <<"a">> >>, << <<"A", "X">> >>, << <<"Y">> >>,
      << <<"A">>, <<"B">> >>, << <<>>, <<"B">> >>, << <<>> >>,
      << <<"a">>, <<"A">> >> }

MaxDate == ToLocalDate(MaxMtime) + 1
Dates == 0..MaxDate

(***************************************************************************)
(* Inputs of a run: the servers, the credentials file, the command line.   *)
(***************************************************************************)
\* the remote trees, by path; "/new" holds a file dated today and a newer
\* one dated after today (the server's clock is ahead)
Remote ==
    [p \in {"/in", "/out", "/empty", "/gone", "/new"} |->
       CASE p = "/in" ->
              [exists |-> TRUE,
               base |-> <<File(<<"A", "x">>, 0), Dir(<<"b">>, 2),
                          File(<<"a", "y">>, 2)>>,
               sub |-> [nm \in Names |-> <<File(<<"A", "x">>, 1)>>]]
         [] p = "/out" ->
              [exists |-> TRUE,
               base |-> <<Dir(<<"A", "x">>, 0), File(<<"b">>, 1)>>,
               sub |-> [nm \in Names |->
                          <<File(<<"b">>, 2), File(<<"a", "y">>, 0)>>]]
         [] p = "/empty" ->
              [exists |-> TRUE, base |-> <<>>,
               sub |-> [nm \in Names |-> <<>>]]
         [] p = "/new" ->
              [exists |-> TRUE,
               base |-> <<File(<<"a", "y">>, Today * SecondsPerDay - TzOffset),
                          File(<<"A", "x">>,
                               (Today + 1) * SecondsPerDay - TzOffset)>>,
               sub |-> [nm \in Names |-> <<>>]]
         [] OTHER ->
              [exists |-> FALSE, base |-> <<>>,
               sub |-> [nm \in Names |-> <<>>]]]

Folder(label, path, filters) ==
    [label |-> label, path |-> path, filters |-> filters]

\* what load_multiple_configs_from_file returns: accounts, each with at
\* least one folder, filters non-empty strings (the filters quoted on a
\* folder's own line are kept as written, also when two differ by case
\* only); no account when the file holds no complete one
ConfigChoices ==
    { <<>>,
      << [name |-> <<"A", "b">>,
          folders |-> << Folder(<<"I", "n">>, "/in", <<>>),
                         Folder(<<"O", "u", "t">>, "/out",
                                << <<"a">>, <<"B">> >>) >>],
         [name |-> <<"b">>,
          folders |-> << Folder(<<"I", "n">>, "/empty", <<>>) >>] >>,
      << [name |-> <<"b">>,
          folders |-> << Folder(<<"O", "u", "t">>, "/gone", << <<"a">> >>),
                         Folder(<<"I", "n">>, "/in", << <<"Y">> >>) >>] >>,
      << [name |-> <<"A", "b">>,
          folders |-> << Folder(<<"I", "n">>, "/new", <<>>),
                         Folder(<<"O", "u", "t">>, "/new",
                                << <<"a">>, <<"A">> >>) >>] >> }

\* the credentials file: absent, or holding the accounts cs
Missing == [exists |-> FALSE, configs |-> <<>>]
ConfigFile(cs) == [exists |-> TRUE, configs |-> cs]

\* a date argument that strptime rejects
BadDate == -2

\* --account and --skip
AccountArgs ==
    { [account |-> None, skip |-> <<>>],
      [account |-> <<"a">>, skip |-> <<>>],
      [account |-> None, skip |-> << <<"A">> >>],
      [account |-> None, skip |-> << <<"B">> >>] }

\* --folder
FolderArgs == {None, <<"o", "U">>, <<"x">>}

\* --today-only, --latest, --previous-day
FlagArgs ==
    { [today_only |-> FALSE, latest |-> FALSE, previous_day |-> FALSE],
      [today_only |-> TRUE, latest |-> FALSE, previous_day |-> FALSE],
      [today_only |-> FALSE, latest |-> TRUE, previous_day |-> FALSE],
      [today_only |-> FALSE, latest |-> FALSE, previous_day |-> TRUE] }

\* --date, --start-date, --end-date
DateArgs ==
    { [date |-> NoDate, start_date |-> NoDate, end_date |-> NoDate],
      [date |-> 1, start_date |-> NoDate, end_date |-> NoDate],
      [date |-> NoDate, start_date |-> 0, end_date |-> 1],
      [date |-> NoDate, start_date |-> 1, end_date |-> NoDate],
      [date |-> NoDate, start_date |-> 1, end_date |-> 0],
      [date |-> BadDate, start_date |-> NoDate, end_date |-> NoDate],
      [date |-> NoDate, start_date |-> 0, end_date |-> BadDate],
      [date |-> 1, start_date |-> BadDate, end_date |-> NoDate] }

\* --output
OutputArgs == {None, <<"o", ".", "x">>}

(***************************************************************************)
(* The credentials file (src/src/config.py).  A text is a string; the      *)
(* file is read with universal newlines, so its lines end with a line      *)
(* feed.                                                                   *)
(***************************************************************************)
Letters ==
    {"a", "b", "c", "d", "e", "f", "g", "h", "i", "j", "k", "l", "m", "n",
     "o", "p", "q", "r", "s", "t", "u", "v", "w", "x", "y", "z"}
Capitals ==
    {"A", "B", "C", "D", "E", "F", "G", "H", "I", "J", "K", "L", "M", "N",
     "O", "P", "Q", "R", "S", "T", "U", "V", "W", "X", "Y", "Z"}
Quotes == {"'", "\""}

\* the class [a-zA-Z0-9.-] of the host pattern (line 168)
HostChars == Letters \cup Capitals \cup AsciiDigits \cup {".", "-"}

\* str.lstrip(chars), str.rstrip(chars) and str.strip(chars)
RECURSIVE LStripOf(_, _)
LStripOf(s, chars) ==
    IF s # <<>> /\ Head(s) \in chars THEN LStripOf(Tail(s), chars) ELSE s
RECURSIVE RStripOf(_, _)
RStripOf(s, chars) ==
    IF s # <<>> /\ s[Len(s)] \in chars
    THEN RStripOf(SubSeq(s, 1, Len(s) - 1), chars)
    ELSE s
StripOf(s, chars) == RStripOf(LStripOf(s, chars), chars)

\* str.strip()
Strip(s) == StripOf(s, WhiteSpace)

\* the first position of character c in s, 0 when there is none
IndexOf(s, c) ==
    IF \E i \in 1..Len(s) : s[i] = c
    THEN CHOOSE i \in 1..Len(s) : s[i] = c /\ \A j \in 1..(i - 1) : s[j] # c
    ELSE 0

\* s from position i on
From(s, i) == SubSeq(s, i, Len(s))

\* the number of characters of the class cls that s starts with
RECURSIVE RunLen(_, _)
RunLen(s, cls) ==
    IF s # <<>> /\ Head(s) \in cls THEN 1 + RunLen(Tail(s), cls) ELSE 0

\* re.search of cls{least,most}: the leftmost run of at least `least`
\* characters of cls, cut after `most`; <<>> when there is no match
RECURSIVE SearchRun(_, _, _, _)
SearchRun(s, cls, least, most) ==
    IF s = <<>> THEN <<>>
    ELSE IF RunLen(s, cls) >= least
    THEN SubSeq(s, 1, IF RunLen(s, cls) > most THEN most
                      ELSE RunLen(s, cls))
    ELSE SearchRun(Tail(s), cls, least, most)

\* int() of a string of digits: a digit of any script has its value
DigitValue(c) ==
    (CHOOSE i \in 1..10 : \E r \in DOMAIN DigitRows : DigitRows[r][i] = c) - 1
RECURSIVE ToInt(_)
ToInt(ds) ==
    IF ds = <<>> THEN 0
    ELSE 10 * ToInt(SubSeq(ds, 1, Len(ds) - 1)) + DigitValue(ds[Len(ds)])

\* str.replace(old, new) for single characters
ReplaceChar(s, old, new) ==
    [i \in 1..Len(s) |-> IF s[i] = old THEN new ELSE s[i]]

\* the literal pat matches at the start of s under re.IGNORECASE
MatchesAt(s, pat) ==
    /\ Len(pat) <= Len(s)
    /\ \A i \in 1..Len(pat) : FoldChar(s[i]) = FoldChar(pat[i])

\* re.sub(pat, "", s, flags=IGNORECASE) for a literal pat: the occurrences
\* of pat are taken out from left to right
RECURSIVE RemoveAll(_, _)
RemoveAll(s, pat) ==
    IF s = <<>> \/ pat = <<>> THEN s
    ELSE IF MatchesAt(s, pat)
    THEN RemoveAll(From(s, Len(pat) + 1), pat)
    ELSE <<Head(s)>> \o RemoveAll(Tail(s), pat)

\* lines 61-63 of _clean_value: re.search(r"(['\"])(.*?)\1", rv), the
\* position of the leftmost quote that is closed later (0: no match); the
\* dot of the pattern matches every character but the line feed, so the
\* quote is closed before the next line feed
FirstQuote(rv) ==
    LET ClosedAt(i) ==
            /\ rv[i] \in Quotes
            /\ IndexOf(From(rv, i + 1), rv[i]) > 0
            /\ \/ IndexOf(From(rv, i + 1), "\n") = 0
               \/ IndexOf(From(rv, i + 1), "\n")
                      > IndexOf(From(rv, i + 1), rv[i])
    IN IF \E i \in 1..Len(rv) : ClosedAt(i)
       THEN CHOOSE i \in 1..Len(rv) :
                ClosedAt(i) /\ \A j \in 1..(i - 1) : ~ClosedAt(j)
       ELSE 0

\* lines 64-68 of _clean_value: the value has no quoted part; the comment
\* is cut off and a lone pair of surrounding quotes removed
Unquoted(rv) ==
    LET hash == IndexOf(rv, "#")
        value == Strip(IF hash = 0 THEN rv ELSE SubSeq(rv, 1, hash - 1))
    IN IF value # <<>> /\ value[1] \in Quotes /\ value[Len(value)] = value[1]
       THEN Strip(SubSeq(value, 2, Len(value) - 1))
       ELSE value

\* _clean_value, lines 53-69
CleanValueOf(rv) ==
    IF FirstQuote(rv) > 0
    THEN LET rest == From(rv, FirstQuote(rv) + 1)
         IN Strip(SubSeq(rest, 1, IndexOf(rest, rv[FirstQuote(rv)]) - 1))
    ELSE Unquoted(rv)
CleanValue(raw_value) == CleanValueOf(Strip(raw_value))

\* _normalise_key, lines 72-73
NormaliseKey(raw_key) ==
    SelectSeq(Lower(raw_key), LAMBDA c : c \in Letters)

\* the normalised keys of lines 165-191 and the labels of lines 79, 184, 201
HostKeys ==
    { <<"h", "o", "s", "t">>,
      <<"h", "o", "s", "t", "u", "r", "l">>,
      <<"f", "t", "p", "u", "r", "l">>,
      <<"u", "r", "l">> }
UsernameKey == <<"u", "s", "e", "r", "n", "a", "m", "e">>
PasswordKey == <<"p", "a", "s", "s", "w", "o", "r", "d">>
SectionKeys ==
    { <<"f", "o", "l", "d", "e", "r", "s">>,
      <<"l", "o", "c", "a", "t", "i", "o", "n", "s">> }
FolderKey == <<"f", "o", "l", "d", "e", "r">>
FolderLabel == <<"F", "o", "l", "d", "e", "r">>
RootFolder == [label |-> <<"R", "o", "o", "t">>, path |-> <<"/">>]
\* re.findall of the quoted parts (line 99), the empty ones left out
RECURSIVE QuotedSegments(_)
QuotedSegments(s) ==
    IF s = <<>> THEN <<>>
    ELSE IF Head(s) \in Quotes /\ IndexOf(Tail(s), Head(s)) > 0
    THEN LET k == IndexOf(Tail(s), Head(s))
         IN (IF k = 1 THEN <<>> ELSE <<SubSeq(Tail(s), 1, k - 1)>>)
                \o QuotedSegments(From(Tail(s), k + 1))
    ELSE QuotedSegments(Tail(s))

\* lines 103-123: the path is the first quoted part with a slash, or the
\* whole value; the other quoted parts are the filters
PathAndFilters(value, segments) ==
    LET slashed == SelectSeq(segments, LAMBDA g : IndexOf(g, "/") > 0)
        path == IF slashed # <<>> THEN slashed[1]
                ELSE IF value # <<>> THEN value ELSE <<"/">>
    IN [path |-> path,
        filters |-> SelectSeq(segments, LAMBDA g : g # path)]

\* _parse_folder_value, lines 92-125
ParseFolderValue(raw) == PathAndFilters(Strip(raw), QuotedSegments(Strip(raw)))

\* lines 82-88 of _derive_folder_label, for a key that is not blank
LabelOf(label, stripped) ==
    LET kept == IF stripped = <<>> THEN label ELSE stripped
        spaced == ReplaceChar(ReplaceChar(kept, "_", " "), "-", " ")
    IN UpperChar(spaced[1]) \o Tail(spaced)

\* _derive_folder_label, lines 76-89
DeriveFolderLabel(account_name, raw_key) ==
    IF Strip(raw_key) = <<>> THEN FolderLabel
    ELSE LabelOf(Strip(raw_key),
                 StripOf(RemoveAll(Strip(raw_key), account_name),
                         {" ", "_", "-", ":"}))

\* d[k] = v on a dict
SetKey(d, k, v) ==
    [x \in DOMAIN d \cup {k} |-> IF x = k THEN v ELSE d[x]]

\* lines 155-160: the filters of a continuation line that the folder does
\* not have yet, upper and lower case taken as the same
RECURSIVE AddFilters(_, _)
AddFilters(existing, extra) ==
    IF extra = <<>> THEN existing
    ELSE IF \E i \in 1..Len(existing) :
                Lower(existing[i]) = Lower(Head(extra))
    THEN AddFilters(existing, Tail(extra))
    ELSE AddFilters(Append(existing, Head(extra)), Tail(extra))

\* lines 150-161: a line without a colon adds filters to the last folder
Continuation(st, line) ==
    IF st.last = 0 THEN st
    ELSE [st EXCEPT
            !.account = SetKey(
                st.account, "folders",
                [st.account["folders"] EXCEPT
                   ![st.last].filters =
                       AddFilters(@, ParseFolderValue(line).filters)])]

\* lines 184-186, 192-194: a folder is appended and becomes the last folder
AddFolder(st, label, pf) ==
    [account |-> SetKey(st.account, "folders",
                        Append(st.account["folders"],
                               [label |-> label, path |-> pf.path,
                                filters |-> pf.filters])),
     last |-> Len(st.account["folders"]) + 1]

\* lines 165-171: a host line sets the host and the port that its value
\* shows
HostLine(st, value) ==
    LET host == SearchRun(value, HostChars, 1, Len(value))
        port == SearchRun(value, Digits, 2, 5)
        a1 == IF host # <<>> THEN SetKey(st.account, "host", host)
              ELSE st.account
    IN [st EXCEPT
          !.account = IF port # <<>> THEN SetKey(a1, "port", ToInt(port))
                      ELSE a1]

\* lines 176-179: a port line sets the port to the first number of its value
PortLine(st, value) ==
    LET digits == SearchRun(value, Digits, 1, Len(value))
    IN IF digits # <<>>
       THEN [st EXCEPT !.account = SetKey(@, "port", ToInt(digits))]
       ELSE st

\* lines 163-194: a line `key: value`
KeyValue(st, raw_key, value, key_norm) ==
    IF key_norm \in HostKeys
    THEN HostLine(st, value)
    ELSE IF key_norm = UsernameKey
    THEN [st EXCEPT !.account = SetKey(@, "username", value)]
    ELSE IF key_norm = PasswordKey
    THEN [st EXCEPT !.account = SetKey(@, "password", value)]
    ELSE IF key_norm = <<"p", "o", "r", "t">> THEN PortLine(st, value)
    ELSE IF key_norm \in SectionKeys THEN st
    ELSE IF key_norm = FolderKey
    THEN AddFolder(st, FolderLabel, ParseFolderValue(value))
    ELSE AddFolder(st, DeriveFolderLabel(st.account["name"], raw_key),
                   ParseFolderValue(value))

\* lines 146-194: one line of a block after its first
ParseLine(st, line) ==
    IF StartsWith(line, <<"-", "-">>) THEN st
    ELSE IF IndexOf(line, ":") = 0 THEN Continuation(st, line)
    ELSE KeyValue(st, SubSeq(line, 1, IndexOf(line, ":") - 1),
                  CleanValue(From(line, IndexOf(line, ":") + 1)),
                  NormaliseKey(SubSeq(line, 1, IndexOf(line, ":") - 1)))

RECURSIVE ParseLines(_, _)
ParseLines(st, lines) ==
    IF lines = <<>> THEN st
    ELSE ParseLines(ParseLine(st, Head(lines)), Tail(lines))

\* line 199: the account has the three keys
Retained(account) ==
    {"host", "username", "password"} \subseteq DOMAIN account

\* lines 196-202: the default port, the test of the three keys and the
\* implicit root folder
Finish(account) ==
    LET a1 == IF "port" \in DOMAIN account THEN account
              ELSE SetKey(account, "port", 22)
    IN IF ~Retained(a1) THEN <<>>
       ELSE IF a1["folders"] = <<>>
       THEN <<SetKey(a1, "folders", <<RootFolder>>)>>
       ELSE <<a1>>

\* s cut at each character of seps
RECURSIVE SplitAt(_, _, _)
SplitAt(s, seps, piece) ==
    IF s = <<>> THEN <<piece>>
    ELSE IF Head(s) \in seps
    THEN <<piece>> \o SplitAt(Tail(s), seps, <<>>)
    ELSE SplitAt(Tail(s), seps, Append(piece, Head(s)))

\* line 140: the lines of a block, stripped, the blank ones left out (so
\* that a carriage return and line feed count as one line end or as two
\* makes no difference)
BlockLines(block) ==
    SelectSeq([i \in 1..Len(SplitAt(block, LineBreaks, <<>>)) |->
                 Strip(SplitAt(block, LineBreaks, <<>>)[i])],
              LAMBDA l : l # <<>>)

\* lines 139-202: the account of one block, if it is kept
LoadBlock(lines) ==
    IF lines = <<>> THEN <<>>
    ELSE Finish(ParseLines([account |-> [name |-> Head(lines),
                                         folders |-> <<>>],
                            last |-> 0],
                           Tail(lines)).account)

\* line 136: re.split(r"-{5,}", content); a run of five dashes or more is
\* taken whole, a shorter run stays in the block
RECURSIVE SplitBlocks(_, _)
SplitBlocks(s, block) ==
    IF s = <<>> THEN <<block>>
    ELSE IF RunLen(s, {"-"}) >= 5
    THEN <<block>> \o SplitBlocks(From(s, RunLen(s, {"-"}) + 1), <<>>)
    ELSE IF Head(s) = "-"
    THEN SplitBlocks(From(s, RunLen(s, {"-"}) + 1),
                     block \o SubSeq(s, 1, RunLen(s, {"-"})))
    ELSE SplitBlocks(Tail(s), Append(block, Head(s)))

RECURSIVE LoadBlocks(_)
LoadBlocks(blocks) ==
    IF blocks = <<>> THEN <<>>
    ELSE LoadBlock(BlockLines(Head(blocks))) \o LoadBlocks(Tail(blocks))

\* load_multiple_configs_from_file, lines 135-206, for a file that exists
LoadMultipleConfigs(content) == LoadBlocks(SplitBlocks(content, <<>>))

(***************************************************************************)
(* The credentials texts drawn for the loader.                             *)
(***************************************************************************)
\* the first line of a block: the account name, or none
NameLines ==
    { <<>>,
      << <<"A", "b">> >> }
\* a host line: none, host and port, an address, a comment only
HostLines ==
    { <<>>,
      << <<"h", "o", "s", "t", ":", " ", "h", ".", "x", ":", "2", "2",
         "2", "2">> >>,
      << <<"u", "r", "l", ":", " ", "1", "0", ".", "0", ".", "0", ".",
         "1">> >>,
      << <<"h", "o", "s", "t", ":", " ", "#", "x">> >> }
\* a username line: none, a name after a unit separator (U+001F) and before
\* a no-break space, an empty value
UsernameLines ==
    { <<>>,
      << <<" ", " ", "U", "s", "e", "r", "n", "a", "m", "e", ":", "",
         "u", " ">> >>,
      << <<"U", "s", "e", "r", "n", "a", "m", "e", ":">> >> }
\* a password line: none, quoted, a comment only, plain
PasswordLines ==
    { <<>>,
      << <<"p", "a", "s", "s", "-", "w", "o", "r", "d", ":", " ", "'",
         "p", "#", "1", "'", " ", "#", " ", "c">> >>,
      << <<"p", "a", "s", "s", "w", "o", "r", "d", ":", " ", "#", "p">> >>,
      << <<"p", "a", "s", "s", "w", "o", "r", "d", ":", " ", "p">> >> }
\* a port line: none, a number, a number in an Extended Arabic-Indic and a
\* Nko digit, no number
PortLines ==
    { <<>>,
      << <<"p", "o", "r", "t", ":", " ", "2", "1">> >>,
      << <<"p", "o", "r", "t", ":", " ", "۲", "߁", "x", "7">> >>,
      << <<"p", "o", "r", "t", ":", " ", "x">> >> }
\* folder lines: none, a folder with more filters on the next line, a quoted
\* path and filter, a note and a section marker, filters with no folder, a
\* key and filters with letters outside ASCII
FolderLines ==
    { <<>>,
      << <<"a", "b", "_", "ß", "i", "n", ":", "\t", "/", "i", "n">>,
         <<"'", "É", "'", " ", "'", "é", "'", " ", "\"", "Α", "Σ", "\"",
           " ", "'", "α", "σ", "'">> >>,
      << <<"A", "b", "_", "I", "n", ":", " ", "/", "i", "n">>, <<"'",
         "a", "'", " ", "\"", "B", "\"", " ", "'", "A", "'">> >>,
      << <<"f", "o", "l", "d", "e", "r", ":", " ", "\"", "'", "/", "o",
         "u", "t", "'", " ", "'", "b", "'", "\"">> >>,
      << <<"-", "-", " ", "n", "o", "t", "e">>, <<"f", "o", "l", "d",
         "e", "r", "s", ":">> >>,
      << <<"'", "a", "'">> >> }
\* the rest of the file: nothing, a separator and a second block, or the
\* same after a separator line that carries a title
MoreBlocks ==
    { <<>>,
      << <<"-", "-", "-", "-", "-", "-", " ", "n", "e", "x", "t", " ", "-",
           "-", "-", "-", "-">>, <<"b">>, <<"h", "o", "s", "t", ":", " ",
           "h">>, <<"u", "s", "e", "r", "n", "a", "m", "e", ":", " ", "u">>,
         <<"p", "a", "s", "s", "w", "o", "r", "d", ":", " ", "p">> >>,
      << <<"-", "-", "-", "-", "-">>, <<"b">>, <<"h", "o", "s", "t", ":",
         " ", "h">>, <<"u", "s", "e", "r", "n", "a", "m", "e", ":",
         " ", "u">>, <<"p", "a", "s", "s", "w", "o", "r", "d", ":",
         " ", "p">> >> }

\* the text of a file with the given lines
RECURSIVE Text(_)
Text(lines) ==
    IF lines = <<>> THEN <<>>
    ELSE Head(lines) \o <<"\n">> \o Text(Tail(lines))

\* a credentials file: one block put together from the lines above, and
\* what follows it
Contents ==
    { Text(n \o h \o u \o p \o q \o f \o m) :
        n \in NameLines, h \in HostLines, u \in UsernameLines,
        p \in PasswordLines, q \in PortLines, f \in FolderLines,
        m \in MoreBlocks }

(***************************************************************************)
(* State.                                                                  *)
(***************************************************************************)
VARIABLES
    \* the remote directory tree the session of the selection calls lists
    tree,
    \* the last selection call: its name, arguments, result and the number of
    \* listing calls it made
    call,
    \* the credentials file: Missing, or the accounts it holds
    cfgfile,
    \* the command line of main.py (argparse namespace); of the date range
    \* check, the arguments start_date and end_date
    args,
    \* where the run is.  main.py: "main", "dates", "policy", "collect",
    \* "account", "folders", "finally", "report", "done", "aborted",
    \* "crashed", "returned"; the date range check: "check", "check_dates",
    \* "check_account", "check_folders", "check_finally", "report_dates",
    \* "check_report", "check_done", "check_crashed", "check_returned";
    \* "idle" when no run
    pc,
    \* the list of dates (<<>> for None), the date the loop that lists them
    \* has come to (cur, current_date), the index of main.py's current
    \* date, -1 when the collecting function is called directly, and the
    \* index of the date the date range check is checking in a folder
    dates,
    cur,
    di,
    ci,
    \* the arguments of the current collect_latest_file_details call
    cargs,
    \* collect_latest_file_details: results, the account index, the folders
    \* kept by the folder filter and the index of the current one
    results,
    ai,
    folders,
    fi,
    \* the current connector: its client and sftp fields
    client,
    sftp,
    \* the accounts that have a session open on their server
    sessions,
    \* the calls made on the servers and the workbooks written, in order
    log,
    \* the workbooks written: kind, date, rows, and the path of a main book
    reports,
    \* the calls the servers have failed so far
    failures,
    \* the text of the credentials file given to the loader, and what
    \* load_multiple_configs_from_file returned for it
    credentials,
    loaded

vars == <<tree, call, cfgfile, args, pc, dates, cur, di, ci, cargs, results,
          ai, folders, fi, client, sftp, sessions, log, reports, failures,
          credentials, loaded>>

loadvars == <<credentials, loaded>>
selvars == <<tree, call, loadvars>>
runvars == <<cfgfile, args, pc, dates, cur, di, ci, cargs, results, ai,
             folders, fi, client, sftp, sessions, log, reports, failures>>

NoCargs == [previous_day |-> FALSE, today_only |-> FALSE, on_date |-> NoDate]

\* the defaults of parse_args (lines 298-341)
NoArgs ==
    [account |-> None, skip |-> <<>>, folder |-> None, output |-> None,
     today_only |-> FALSE, latest |-> FALSE, previous_day |-> FALSE,
     date |-> NoDate, start_date |-> NoDate, end_date |-> NoDate]

\* no run is in progress
RunIdle ==
    /\ cfgfile = Missing
    /\ args = NoArgs
    /\ pc = "idle"
    /\ dates = <<>> /\ cur = NoDate /\ di = 0 /\ ci = 0
    /\ cargs = NoCargs
    /\ results = <<>> /\ ai = 0 /\ folders = <<>> /\ fi = 0
    /\ client = "none" /\ sftp = "none"
    /\ sessions = {}
    /\ log = <<>>
    /\ reports = <<>>
    /\ failures = 0

(***************************************************************************)
(* The selection calls on one connected session.                           *)
(***************************************************************************)
\* the session is connected, a tree is on the server, and the arguments of
\* the next calls are drawn; no call has been made
\* the loader has not been called
LoadIdle ==
    /\ credentials = <<>>
    /\ loaded = [done |-> FALSE, configs |-> <<>>]

InitSel ==
    /\ LoadIdle
    /\ tree \in Trees
    /\ call \in [op : {"none"}, filters : FilterLists,
                 date : Dates \cup {NoDate}, res : {<<>>}, n : {0}]
    /\ RunIdle

\* the call op has returned r.val after r.n listing calls on the server
Returned(op, r) == [call EXCEPT !.op = op, !.res = r.val, !.n = r.n]

\* connector.get_latest_file_info(folder, name_filters=filters)
CallLatest ==
    /\ call' = Returned("latest",
                        GetLatestFileInfo(TRUE, tree, call.filters, 0, {}))
    /\ UNCHANGED <<tree, loadvars>>
    /\ UNCHANGED runvars

\* connector.get_latest_file_info_on_date(folder, date, name_filters=filters)
CallOnDate ==
    /\ call.date # NoDate
    /\ call' = Returned("on_date",
                        GetLatestFileInfoOnDate(TRUE, tree, call.date,
                                                call.filters, 0, {}))
    /\ UNCHANGED <<tree, loadvars>>
    /\ UNCHANGED runvars

\* connector.get_latest_file_info_before_date(folder, date, name_filters=filters)
CallBeforeDate ==
    /\ call.date # NoDate
    /\ call' = Returned("before_date",
                        GetLatestFileInfoBeforeDate(TRUE, tree, call.date,
                                                    call.filters, 0, {}))
    /\ UNCHANGED <<tree, loadvars>>
    /\ UNCHANGED runvars

\* connector.get_latest_files_per_prefix(folder, filters, on_date=date)
CallPerPrefix ==
    /\ call' = Returned("per_prefix",
                        GetLatestFilesPerPrefix(TRUE, tree, call.filters,
                                                call.date, 0, {}))
    /\ UNCHANGED <<tree, loadvars>>
    /\ UNCHANGED runvars

NextSel == CallLatest \/ CallOnDate \/ CallBeforeDate \/ CallPerPrefix

SpecSel == InitSel /\ [][NextSel]_vars

(***************************************************************************)
(* A call of load_multiple_configs_from_file (src/src/config.py).          *)
(***************************************************************************)
\* no selection call is made
NoCall ==
    /\ tree = Remote["/empty"]
    /\ call = [op |-> "none", filters |-> <<>>, date |-> NoDate,
               res |-> <<>>, n |-> 0]

InitLoad ==
    /\ credentials \in Contents
    /\ loaded = [done |-> FALSE, configs |-> <<>>]
    /\ NoCall
    /\ RunIdle

\* configs = load_multiple_configs_from_file(path) for a file that exists
Load ==
    /\ ~loaded.done
    /\ loaded' = [done |-> TRUE, configs |-> LoadMultipleConfigs(credentials)]
    /\ UNCHANGED <<credentials, tree, call, runvars>>

NextLoad == Load

SpecLoad == InitLoad /\ [][NextLoad]_vars

(***************************************************************************)
(* A run of main (src/main.py), and of collect_latest_file_details.        *)
(***************************************************************************)
SelIdle ==
    /\ LoadIdle
    /\ tree = Remote["/empty"]
    /\ call = [op |-> "none", filters |-> <<>>, date |-> NoDate,
               res |-> <<>>, n |-> 0]

Event(ev, account, folder) ==
    [ev |-> ev, account |-> account, folder |-> folder]

\* the ranges check_files_for_date_range is called with directly
CheckRanges ==
    { [start_date |-> 0, end_date |-> 1],
      [start_date |-> 1, end_date |-> 1],
      [start_date |-> 1, end_date |-> 0] }

\* lines 269-270: the range main passes, the seven days from 2025-10-16 to
\* 2025-10-22; day 0 is the first of them
MainRange == [start_date |-> 0, end_date |-> 6]

\* main.py: the command line is drawn and the credentials file is there or
\* not; or (as the tests do) collect_latest_file_details is called directly
\* with its default policy flags
InitMain ==
    \E a \in AccountArgs, f \in FolderArgs, fl \in FlagArgs,
       d \in DateArgs, o \in OutputArgs, direct \in BOOLEAN :
       /\ direct =>
              /\ fl = [today_only |-> FALSE, latest |-> FALSE,
                       previous_day |-> FALSE]
              /\ d = [date |-> NoDate, start_date |-> NoDate,
                      end_date |-> NoDate]
              /\ o = None
       /\ args = [account |-> a.account, skip |-> a.skip, folder |-> f,
                  output |-> o,
                  today_only |-> fl.today_only, latest |-> fl.latest,
                  previous_day |-> fl.previous_day, date |-> d.date,
                  start_date |-> d.start_date, end_date |-> d.end_date]
       /\ pc = IF direct THEN "collect" ELSE "main"
       /\ di = IF direct THEN -1 ELSE 0

\* the credentials files main of check_date_range_files.py is run with:
\* no file, and the files of ConfigChoices with at most one account (the
\* direct calls take every file)
CheckMainFiles ==
    {f \in {ConfigFile(cs) : cs \in ConfigChoices} \cup {Missing} :
       Len(f.configs) <= 1}

\* check_date_range_files.py: main runs with its fixed range, or
\* check_files_for_date_range is called directly with a range
InitCheck ==
    \E r \in CheckRanges \cup {MainRange}, direct \in BOOLEAN :
       /\ direct <=> r \in CheckRanges
       /\ direct \/ cfgfile \in CheckMainFiles
       /\ args = [NoArgs EXCEPT !.start_date = r.start_date,
                                !.end_date = r.end_date]
       /\ pc = "check"
       /\ di = IF direct THEN -1 ELSE 0

Init ==
    /\ SelIdle
    /\ cfgfile \in {ConfigFile(cs) : cs \in ConfigChoices} \cup {Missing}
    /\ InitMain \/ InitCheck
    /\ dates = <<>> /\ cur = NoDate /\ ci = 0
    /\ cargs = NoCargs
    /\ results = <<>> /\ ai = 0 /\ folders = <<>> /\ fi = 0
    /\ client = "none" /\ sftp = "none"
    /\ sessions = {}
    /\ log = <<>>
    /\ reports = <<>>
    /\ failures = 0

\* lines 353, 363-371: a date argument that is read is malformed
DateArgRaises ==
    IF args.date # NoDate THEN args.date = BadDate
    ELSE args.start_date = BadDate \/ args.end_date = BadDate

\* lines 370-371: start and end of the range
RangeStart ==
    IF args.start_date # NoDate THEN args.start_date ELSE args.end_date
RangeEnd ==
    IF args.end_date # NoDate THEN args.end_date ELSE args.start_date

\* main, lines 346-361: --latest sets today_only; then strptime raises and
\* main ends with the exception
MainBadDate ==
    /\ pc = "main"
    /\ DateArgRaises
    /\ args' = [args EXCEPT !.today_only = args.today_only \/ args.latest]
    /\ pc' = "crashed"
    /\ UNCHANGED <<selvars, cfgfile, dates, cur, di, ci, cargs, results, ai,
                   folders, fi, client, sftp, sessions, log, reports, failures>>

\* main, lines 346-377: --latest sets today_only; start is after end and
\* main returns
MainBadRange ==
    /\ pc = "main"
    /\ ~DateArgRaises
    /\ args.date = NoDate
    /\ args.start_date # NoDate \/ args.end_date # NoDate
    /\ RangeStart > RangeEnd
    /\ args' = [args EXCEPT !.today_only = args.today_only \/ args.latest]
    /\ pc' = "aborted"
    /\ UNCHANGED <<selvars, cfgfile, dates, cur, di, ci, cargs, results, ai,
                   folders, fi, client, sftp, sessions, log, reports, failures>>

\* main, lines 346-379: --latest sets today_only and the date arguments
\* are parsed: the one date of --date, or the start of a range whose dates
\* the loop of line 380 is about to list, or no date (None)
MainParse ==
    /\ pc = "main"
    /\ ~DateArgRaises
    /\ ~(/\ args.date = NoDate
         /\ args.start_date # NoDate \/ args.end_date # NoDate
         /\ RangeStart > RangeEnd)
    /\ args' = [args EXCEPT !.today_only = args.today_only \/ args.latest]
    /\ IF args.date # NoDate
       THEN dates' = <<args.date>> /\ cur' = cur /\ pc' = "policy"
       ELSE IF args.start_date # NoDate \/ args.end_date # NoDate
       THEN dates' = <<>> /\ cur' = RangeStart /\ pc' = "dates"
       ELSE dates' = dates /\ cur' = cur /\ pc' = "policy"
    /\ UNCHANGED <<selvars, cfgfile, di, ci, cargs, results, ai, folders, fi,
                   client, sftp, sessions, log, reports, failures>>

\* a variant of MainNextDate that moves to the next day before it appends
MainNextDate_late ==
    /\ pc = "dates"
    /\ cur <= RangeEnd
    /\ dates' = Append(dates, cur + 1)
    /\ cur' = cur + 1
    /\ UNCHANGED <<selvars, cfgfile, args, pc, di, ci, cargs, results, ai,
                   folders, fi, client, sftp, sessions, log, reports, failures>>

\* main, lines 380-382: one turn of `while cur <= end`
MainNextDate ==
    /\ pc = "dates"
    /\ cur <= RangeEnd
    /\ dates' = Append(dates, cur)
    /\ cur' = cur + 1
    /\ UNCHANGED <<selvars, cfgfile, args, pc, di, ci, cargs, results, ai,
                   folders, fi, client, sftp, sessions, log, reports, failures>>

\* main, lines 380 and 384-413: the loop has passed end, or there was no
\* range; the default policy is set and the first collection is due
MainStart ==
    /\ \/ pc = "policy"
       \/ pc = "dates" /\ cur > RangeEnd
    /\ di' = IF dates # <<>> THEN 1 ELSE 0
    /\ args' = [args EXCEPT
                  !.today_only = args.today_only \/ ~args.previous_day]
    /\ pc' = "collect"
    /\ UNCHANGED <<selvars, cfgfile, dates, cur, ci, cargs, results, ai, folders,
                   fi, client, sftp, sessions, log, reports, failures>>

\* the arguments main passes (lines 415-422, 473-480); a direct call runs
\* with the defaults of the signature
CollectArgs ==
    IF di = -1 THEN NoCargs
    ELSE IF dates # <<>>
    THEN [previous_day |-> args.previous_day,
          today_only |-> ~args.previous_day, on_date |-> dates[di]]
    ELSE [previous_day |-> args.previous_day,
          today_only |-> args.today_only, on_date |-> NoDate]

\* collect_latest_file_details, line 41: the credentials file is missing
\* and FileNotFoundError ends the run
CollectNoConfig ==
    /\ pc = "collect"
    /\ ~cfgfile.exists
    /\ pc' = "crashed"
    /\ UNCHANGED <<selvars, cfgfile, args, dates, cur, di, ci, cargs, results,
                   ai, folders, fi, client, sftp, sessions, log, reports,
                   failures>>

\* collect_latest_file_details, lines 41-43
CollectStart ==
    /\ pc = "collect"
    /\ cfgfile.exists
    /\ cargs' = CollectArgs
    /\ results' = <<>>
    /\ ai' = 1
    /\ log' = Append(log, Event("collect", 0, <<>>))
    /\ pc' = "account"
    /\ UNCHANGED <<selvars, cfgfile, args, dates, cur, di, ci, folders, fi,
                   client, sftp, sessions, reports, failures>>

\* a variant of AccountSelected that does not look at the skip list
AccountSelected_noSkip(config) == MatchesFilter(config.name, args.account)

\* lines 46-50: the account passes --account and is not on the skip list
AccountSelected(config) ==
    /\ MatchesFilter(config.name, args.account)
    /\ ~(/\ args.skip # <<>>
         /\ \E i \in 1..Len(args.skip) :
                MatchesFilter(config.name, args.skip[i]))

\* lines 46-50: `continue`
SkipAccount ==
    /\ pc = "account"
    /\ ai <= Len(cfgfile.configs)
    /\ ~AccountSelected(cfgfile.configs[ai])
    /\ ai' = ai + 1
    /\ UNCHANGED <<selvars, cfgfile, args, pc, dates, cur, di, ci, cargs,
                   results, folders, fi, client, sftp, sessions, log, reports,
                   failures>>

\* mutant: the folder filter is ignored
FilteredFolders_all(config) == config.folders

\* lines 77-79: the folders the folder filter keeps
FilteredFolders(config) ==
    IF args.folder # None
    THEN SelectSeq(config.folders,
                   LAMBDA folder : MatchesFilter(folder.label, args.folder))
    ELSE config.folders

\* lines 53-62 and 77-79: connect() succeeds
ConnectOk ==
    /\ pc = "account"
    /\ ai <= Len(cfgfile.configs)
    /\ AccountSelected(cfgfile.configs[ai])
    /\ client' = "open"
    /\ sftp' = "open"
    /\ sessions' = sessions \cup {ai}
    /\ log' = Append(log, Event("connect", ai, <<>>))
    /\ folders' = FilteredFolders(cfgfile.configs[ai])
    /\ fi' = 1
    /\ pc' = "folders"
    /\ UNCHANGED <<selvars, cfgfile, args, dates, cur, di, ci, cargs, results,
                   ai, reports, failures>>

\* SFTPConnector.disconnect: a field that is set is closed
Closed(field) == IF field = "none" THEN "none" ELSE "closed"

\* mutant: disconnect() is called in the except clause and in the finally
\* clause
DisconnectEvents_twice(a, c, s) ==
    <<Event("disconnect", a, <<>>)>>
    \o (IF s # "none" THEN <<Event("sftp_close", a, <<>>)>> ELSE <<>>)
    \o (IF c # "none" THEN <<Event("client_close", a, <<>>)>> ELSE <<>>)
    \o <<Event("disconnect", a, <<>>)>>
    \o (IF s # "none" THEN <<Event("sftp_close", a, <<>>)>> ELSE <<>>)
    \o (IF c # "none" THEN <<Event("client_close", a, <<>>)>> ELSE <<>>)

\* SFTPConnector.disconnect on the connector of account a with fields c
\* (client) and s (sftp): the call, and the close() of each field that is set
DisconnectEvents(a, c, s) ==
    <<Event("disconnect", a, <<>>)>>
    \o (IF s # "none" THEN <<Event("sftp_close", a, <<>>)>> ELSE <<>>)
    \o (IF c # "none" THEN <<Event("client_close", a, <<>>)>> ELSE <<>>)

\* mutant: the client is not closed
StillOpen_leak(open, a, c) == open

\* the sessions open on the servers once disconnect() has closed the client
\* c of account a
StillOpen(open, a, c) == IF c # "none" THEN open \ {a} ELSE open

\* lines 65-72: the row appended when connect() raises
ConnectionErrorRows(config) ==
    <<Row(config.name, Dash, Dash, ConnectionError)>>

\* a variant of ConnectFail that tries the same account again
ConnectFail_retry ==
    /\ pc = "account"
    /\ ai <= Len(cfgfile.configs)
    /\ AccountSelected(cfgfile.configs[ai])
    /\ failures < MaxFailures
    /\ failures' = failures + 1
    /\ results' = results \o ConnectionErrorRows(cfgfile.configs[ai])
    /\ client' = "closed"
    /\ sftp' = "none"
    /\ log' = log \o <<Event("connect_failed", ai, <<>>)>>
                   \o DisconnectEvents(ai, "open", "none")
    /\ sessions' = StillOpen(sessions, ai, "open")
    /\ ai' = ai
    /\ UNCHANGED <<selvars, cfgfile, args, pc, dates, cur, di, ci, cargs,
                   folders, fi, reports>>

\* lines 53-74: connect() raises; one row is appended, the connector is
\* disconnected (its client is closed, it has no sftp) and the loop goes on
ConnectFail ==
    /\ pc = "account"
    /\ ai <= Len(cfgfile.configs)
    /\ AccountSelected(cfgfile.configs[ai])
    /\ failures < MaxFailures
    /\ failures' = failures + 1
    /\ results' = results \o ConnectionErrorRows(cfgfile.configs[ai])
    /\ client' = "closed"
    /\ sftp' = "none"
    /\ log' = log \o <<Event("connect_failed", ai, <<>>)>>
                   \o DisconnectEvents(ai, "open", "none")
    /\ sessions' = StillOpen(sessions, ai, "open")
    /\ ai' = ai + 1
    /\ UNCHANGED <<selvars, cfgfile, args, pc, dates, cur, di, ci, cargs,
                   folders, fi, reports>>

\* lines 81-91: no folder is left; one row, then the finally clause
NoFolders ==
    /\ pc = "folders"
    /\ folders = <<>>
    /\ results' = Append(results,
                         Row(cfgfile.configs[ai].name,
                             IF args.folder # None THEN args.folder ELSE Dash,
                             Dash, FolderNotConfigured))
    /\ pc' = "finally"
    /\ UNCHANGED <<selvars, cfgfile, args, dates, cur, di, ci, cargs, ai,
                   folders, fi, client, sftp, sessions, log, reports, failures>>

\* most listing calls one folder can take
CallBound(folder) ==
    LET t == Remote[folder.path]
        dirs == Len(SelectSeq(t.base, IsDir))
        n == IF folder.filters = <<>> THEN 1 ELSE Len(folder.filters)
    IN 2 * n * (1 + dirs) + 1

\* mutant: the rows of the folder are put in front of the earlier rows
FolderEffect_prepend(F, r) ==
    /\ Cardinality(F) <= MaxFailures - failures
    /\ F \subseteq 1..r.n
    /\ failures' = failures + Cardinality(F)
    /\ results' = r.rows \o results
    /\ log' = log \o [i \in 1..r.n |->
                         Event(IF i \in F THEN "list_failed" ELSE "list",
                               ai, folders[fi].label)]

\* the effect of one folder's outcome r on the run
FolderEffect(F, r) ==
    /\ Cardinality(F) <= MaxFailures - failures
    /\ F \subseteq 1..r.n
    /\ failures' = failures + Cardinality(F)
    /\ results' = results \o r.rows
    /\ log' = log \o [i \in 1..r.n |->
                         Event(IF i \in F THEN "list_failed" ELSE "list",
                               ai, folders[fi].label)]

\* lines 93-275: one folder of the loop.  F: the listing calls of this
\* folder that the server fails.
DoFolder ==
    /\ pc = "folders"
    /\ fi <= Len(folders)
    /\ \E F \in SUBSET (1..CallBound(folders[fi])) :
          FolderEffect(F, ProcessFolder(Remote[folders[fi].path],
                                        cfgfile.configs[ai].name,
                                        folders[fi], cargs.today_only,
                                        cargs.previous_day, cargs.on_date,
                                        Today, F))
    /\ fi' = fi + 1
    /\ pc' = IF fi = Len(folders) THEN "finally" ELSE "folders"
    /\ UNCHANGED <<selvars, cfgfile, args, dates, cur, di, ci, cargs, ai,
                   folders, client, sftp, sessions, reports>>

\* lines 276-278: the finally clause, then the next account
Finally ==
    /\ pc = "finally"
    /\ client' = Closed(client)
    /\ sftp' = Closed(sftp)
    /\ sessions' = StillOpen(sessions, ai, client)
    /\ log' = log \o DisconnectEvents(ai, client, sftp)
    /\ ai' = ai + 1
    /\ pc' = "account"
    /\ UNCHANGED <<selvars, cfgfile, args, dates, cur, di, ci, cargs, results,
                   folders, fi, reports, failures>>

\* line 280: return results
CollectReturn ==
    /\ pc = "account"
    /\ ai > Len(cfgfile.configs)
    /\ pc' = IF di = -1 THEN "returned" ELSE "report"
    /\ UNCHANGED <<selvars, cfgfile, args, dates, cur, di, ci, cargs, results,
                   ai, folders, fi, client, sftp, sessions, log, reports,
                   failures>>

\* a variant of IsErrorRow that misses the 'Folder not configured' rows
IsErrorRow_noFolder(row) == row.date \in {ListingError, ConnectionError}

\* lines 441-450, 495-504: the row carries an error marker
IsErrorRow(row) ==
    row.date \in {ListingError, ConnectionError, FolderNotConfigured}

\* mutant: the collection is started again once the first report is written
AfterReport_again ==
    /\ di' = di
    /\ pc' = IF reports = <<>> THEN "collect" ELSE "done"

\* after the report of one date: the next date, or the end of main
AfterReport ==
    IF dates # <<>> /\ di < Len(dates)
    THEN /\ di' = di + 1
         /\ pc' = "collect"
    ELSE /\ di' = di
         /\ pc' = "done"

\* lines 424-426, 481-484: no rows, nothing is written
NoData ==
    /\ pc = "report"
    /\ results = <<>>
    /\ AfterReport
    /\ UNCHANGED <<selvars, cfgfile, args, dates, cur, ci, cargs, results, ai,
                   folders, fi, client, sftp, sessions, log, reports, failures>>

\* lines 429-436, 487-490: where the main book is written.  The default is
\* the result directory with the date in the name; --output is taken as it
\* is, with the date put before its suffix when there are several dates.
ResultPath(report_date) ==
    IF args.output = None
    THEN [output |-> None, date |-> report_date]
    ELSE [output |-> args.output,
          date |-> IF Len(dates) > 1 THEN report_date ELSE NoDate]

\* lines 428-459, 486-515: the report, and the error report if a row is
\* error-marked
WriteReports ==
    /\ pc = "report"
    /\ results # <<>>
    /\ LET report_date == IF dates # <<>> THEN dates[di] ELSE Today
           error_rows == SelectSeq(results, IsErrorRow)
           main_book == [kind |-> "main", date |-> report_date,
                         rows |-> results, path |-> ResultPath(report_date)]
           error_book == [kind |-> "errors", date |-> report_date,
                          rows |-> error_rows]
       IN IF error_rows # <<>>
          THEN /\ reports' = reports \o <<main_book, error_book>>
               /\ log' = log \o <<Event("write_main", 0, <<>>),
                                  Event("write_errors", 0, <<>>)>>
          ELSE /\ reports' = Append(reports, main_book)
               /\ log' = Append(log, Event("write_main", 0, <<>>))
    /\ AfterReport
    /\ UNCHANGED <<selvars, cfgfile, args, dates, cur, ci, cargs, results, ai,
                   folders, fi, client, sftp, sessions, failures>>

(***************************************************************************)
(* A run of the date range check (src/check_date_range_files.py): main,    *)
(* or a call of check_files_for_date_range(start_date, end_date).          *)
(***************************************************************************)
\* lines 90-99: connect() raised; one row for each date of the range
ConnectionErrorDayRows(config, date_range) ==
    [i \in 1..Len(date_range) |->
       DayRow(config.name, Dash, date_range[i], Dash, ConnectionError)]

\* lines 106-115: the rows of an account without folders; they have a
\* "File DateTime" and no "LastFileDate"
NoFoldersDayRows(config, date_range) ==
    [i \in 1..Len(date_range) |->
       [account |-> config.name, folder |-> Dash, day |-> date_range[i],
        name |-> Dash, file_datetime |-> NoFoldersConfigured]]

\* create_horizontal_format_excel, line 235: column D
FolderType(folder_label) ==
    IF \E i \in 1..Len(folder_label) : folder_label[i] = "("
    THEN folder_label
    ELSE Strip(folder_label)

\* create_horizontal_format_excel, lines 216-252: the header row of each
\* account, in the order the accounts first appear, followed by the cells
\* B to E of its rows (the file name is not written; a time stamp is
\* written as the date and time it names)
RECURSIVE SheetRows(_)
SheetRows(rows) ==
    IF rows = <<>> THEN <<>>
    ELSE LET account == Head(rows).account
             own == SelectSeq(rows, LAMBDA r : r.account = account)
         IN <<[header |-> account]>>
            \o [i \in 1..Len(own) |->
                  [account |-> own[i].account, folder |-> own[i].folder,
                   type |-> FolderType(own[i].folder),
                   date |-> own[i].date]]
            \o SheetRows(SelectSeq(rows, LAMBDA r : r.account # account))

\* create_horizontal_format_excel, lines 193-261: the workbook of one date
DailyBook(check_date, rows) ==
    [kind |-> "daily", date |-> check_date,
     rows |-> SheetRows(SelectSeq(rows, LAMBDA r : r.day = check_date))]

\* line 61: the credentials file is missing; FileNotFoundError ends the
\* call, and main (lines 328-330) exits with status 1
CheckNoConfig ==
    /\ pc = "check"
    /\ ~cfgfile.exists
    /\ pc' = "check_crashed"
    /\ UNCHANGED <<selvars, cfgfile, args, dates, cur, di, ci, cargs, results,
                   ai, folders, fi, client, sftp, sessions, log, reports,
                   failures>>

\* lines 61-66: the accounts are loaded; the loop that lists the dates of
\* the range is about to start
CheckStart ==
    /\ pc = "check"
    /\ cfgfile.exists
    /\ dates' = <<>>
    /\ cur' = args.start_date
    /\ results' = <<>>
    /\ log' = Append(log, Event("collect", 0, <<>>))
    /\ pc' = "check_dates"
    /\ UNCHANGED <<selvars, cfgfile, args, di, ci, cargs, ai, folders, fi,
                   client, sftp, sessions, reports, failures>>

\* lines 67-69: one turn of `while current_date <= end_date`
CheckListDate ==
    /\ pc = "check_dates"
    /\ cur <= args.end_date
    /\ dates' = Append(dates, cur)
    /\ cur' = cur + 1
    /\ UNCHANGED <<selvars, cfgfile, args, pc, di, ci, cargs, results, ai,
                   folders, fi, client, sftp, sessions, log, reports, failures>>

\* lines 67 and 71-73: the loop has passed end_date; the first account
CheckDatesDone ==
    /\ pc = "check_dates"
    /\ cur > args.end_date
    /\ ai' = 1
    /\ pc' = "check_account"
    /\ UNCHANGED <<selvars, cfgfile, args, dates, cur, di, ci, cargs, results,
                   folders, fi, client, sftp, sessions, log, reports, failures>>

\* lines 80-89 and 104-128: connect() succeeds; an account without folders
\* gets its rows and goes to the finally clause, and so does an account
\* whose folders have no date to be checked for (the range is empty)
CheckConnectOk ==
    /\ pc = "check_account"
    /\ ai <= Len(cfgfile.configs)
    /\ client' = "open"
    /\ sftp' = "open"
    /\ sessions' = sessions \cup {ai}
    /\ log' = Append(log, Event("connect", ai, <<>>))
    /\ folders' = cfgfile.configs[ai].folders
    /\ fi' = 1
    /\ ci' = 1
    /\ IF cfgfile.configs[ai].folders = <<>>
       THEN /\ results' = results
                            \o NoFoldersDayRows(cfgfile.configs[ai], dates)
            /\ pc' = "check_finally"
       ELSE /\ results' = results
            /\ pc' = IF dates = <<>> THEN "check_finally"
                     ELSE "check_folders"
    /\ UNCHANGED <<selvars, cfgfile, args, dates, cur, di, cargs, ai, reports,
                   failures>>

\* lines 87-101: connect() raises; the rows are appended, the connector is
\* disconnected and the loop goes to the next account
CheckConnectFail ==
    /\ pc = "check_account"
    /\ ai <= Len(cfgfile.configs)
    /\ failures < MaxFailures
    /\ failures' = failures + 1
    /\ results' = results
                    \o ConnectionErrorDayRows(cfgfile.configs[ai], dates)
    /\ client' = "closed"
    /\ sftp' = "none"
    /\ log' = log \o <<Event("connect_failed", ai, <<>>)>>
                   \o DisconnectEvents(ai, "open", "none")
    /\ sessions' = StillOpen(sessions, ai, "open")
    /\ ai' = ai + 1
    /\ UNCHANGED <<selvars, cfgfile, args, pc, dates, cur, di, ci, cargs,
                   folders, fi, reports>>

\* most listing calls one folder can take for one date
CheckCallBound(folder) ==
    LET t == Remote[folder.path]
        dirs == Len(SelectSeq(t.base, IsDir))
        n == IF folder.filters = <<>> THEN 1 ELSE Len(folder.filters)
    IN n * (1 + dirs)

\* lines 118-182: one folder of the loop checked for one date of the
\* range (one turn of `for check_date in date_range`); after the last date
\* the next folder.  F: the listing calls of this turn that the server
\* fails.
CheckFolder ==
    /\ pc = "check_folders"
    /\ fi <= Len(folders)
    /\ ci <= Len(dates)
    /\ \E F \in SUBSET (1..CheckCallBound(folders[fi])) :
          FolderEffect(F, CheckOnDate(Remote[folders[fi].path],
                                      cfgfile.configs[ai].name, folders[fi],
                                      dates[ci], 0, F))
    /\ IF ci < Len(dates)
       THEN ci' = ci + 1 /\ fi' = fi /\ pc' = pc
       ELSE /\ ci' = 1
            /\ fi' = fi + 1
            /\ pc' = IF fi = Len(folders) THEN "check_finally"
                     ELSE "check_folders"
    /\ UNCHANGED <<selvars, cfgfile, args, dates, cur, di, cargs, ai, folders,
                   client, sftp, sessions, reports>>

\* lines 186-188: the finally clause, then the next account
CheckFinally ==
    /\ pc = "check_finally"
    /\ client' = Closed(client)
    /\ sftp' = Closed(sftp)
    /\ sessions' = StillOpen(sessions, ai, client)
    /\ log' = log \o DisconnectEvents(ai, client, sftp)
    /\ ai' = ai + 1
    /\ pc' = "check_account"
    /\ UNCHANGED <<selvars, cfgfile, args, dates, cur, di, ci, cargs, results,
                   folders, fi, reports, failures>>

\* line 190: return all_results; main (lines 278-286) goes on with the
\* rows, if there is one, to the loop that lists the dates again
CheckReturn ==
    /\ pc = "check_account"
    /\ ai > Len(cfgfile.configs)
    /\ IF di = -1
       THEN pc' = "check_returned" /\ dates' = dates /\ cur' = cur
       ELSE IF results = <<>>
       THEN pc' = "check_report" /\ dates' = dates /\ cur' = cur
       ELSE pc' = "report_dates" /\ dates' = <<>> /\ cur' = args.start_date
    /\ UNCHANGED <<selvars, cfgfile, args, di, ci, cargs, results, ai, folders,
                   fi, client, sftp, sessions, log, reports, failures>>

\* main, lines 287-289: one turn of `while current_date <= end_date`
ReportListDate ==
    /\ pc = "report_dates"
    /\ cur <= args.end_date
    /\ dates' = Append(dates, cur)
    /\ cur' = cur + 1
    /\ UNCHANGED <<selvars, cfgfile, args, pc, di, ci, cargs, results, ai,
                   folders, fi, client, sftp, sessions, log, reports, failures>>

\* main, lines 325-326: no rows, nothing is written
CheckNoData ==
    /\ pc = "check_report"
    /\ results = <<>>
    /\ pc' = "check_done"
    /\ UNCHANGED <<selvars, cfgfile, args, dates, cur, di, ci, cargs, results,
                   ai, folders, fi, client, sftp, sessions, log, reports,
                   failures>>

\* main, lines 287 and 291-330: the loop has passed end_date; one workbook
\* for each date of the range, whether the date has rows or not.  A row
\* without "LastFileDate" raises KeyError in the workbook of its date, and
\* main exits with status 1.
WriteDaily ==
    /\ pc = "report_dates"
    /\ cur > args.end_date
    /\ LET raising == {i \in 1..Len(dates) :
                         \E j \in 1..Len(results) :
                            /\ results[j].day = dates[i]
                            /\ "date" \notin DOMAIN results[j]}
           written == IF raising = {} THEN Len(dates)
                      ELSE (CHOOSE i \in raising :
                                \A j \in raising : i <= j) - 1
       IN /\ reports' = reports
                          \o [i \in 1..written |->
                                DailyBook(dates[i], results)]
          /\ log' = log \o [i \in 1..written |->
                               Event("write_daily", 0, <<>>)]
          /\ pc' = IF raising = {} THEN "check_done" ELSE "check_crashed"
    /\ UNCHANGED <<selvars, cfgfile, args, dates, cur, di, ci, cargs, results,
                   ai, folders, fi, client, sftp, sessions, failures>>

(***************************************************************************)
(* The runs of both programs.                                              *)
(***************************************************************************)
Next ==
    \/ MainBadDate \/ MainBadRange
    \/ MainParse \/ MainNextDate \/ MainStart
    \/ CollectNoConfig \/ CollectStart
    \/ SkipAccount \/ ConnectOk \/ ConnectFail
    \/ NoFolders \/ DoFolder \/ Finally
    \/ CollectReturn
    \/ NoData \/ WriteReports
    \/ CheckNoConfig \/ CheckStart
    \/ CheckListDate \/ CheckDatesDone
    \/ CheckConnectOk \/ CheckConnectFail
    \/ CheckFolder \/ CheckFinally
    \/ CheckReturn \/ ReportListDate
    \/ CheckNoData \/ WriteDaily

Spec == Init /\ [][Next]_vars

\* the steps that make no call on a server
LocalNext ==
    \/ MainBadDate \/ MainBadRange
    \/ MainParse \/ MainNextDate \/ MainStart
    \/ CollectNoConfig \/ CollectStart
    \/ SkipAccount \/ NoFolders
    \/ CollectReturn
    \/ NoData \/ WriteReports
    \/ CheckNoConfig \/ CheckStart
    \/ CheckListDate \/ CheckDatesDone
    \/ CheckReturn \/ ReportListDate
    \/ CheckNoData \/ WriteDaily

\* Each program is one sequential thread: a step that waits for nothing is
\* taken.  connect(), the listing calls and disconnect() wait for the
\* server, and the connector sets no timeout, so nothing makes ConnectOk,
\* ConnectFail, DoFolder, Finally and their counterparts of the date range
\* check happen.
SpecLive == Init /\ [][Next]_vars /\ WF_vars(LocalNext)

(***************************************************************************)
(* Properties of the selection calls (checked under SpecSel).              *)
(***************************************************************************)
\* the candidates of the last call: what _collect_candidate_files returned
Candidates == CollectCandidateFiles(TRUE, tree, call.filters, 0, {}).val

BaseRegs == SelectSeq(tree.base, IsReg)

\* info names an entry of the list fs that no entry of fs is newer than
IsLatestOf(info, fs) ==
    \E i \in 1..Len(fs) :
        /\ info = <<fs[i].filename, FormatTs(fs[i].st_mtime)>>
        /\ \A j \in 1..Len(fs) : fs[j].st_mtime <= fs[i].st_mtime

\* name starts, ignoring case, with one of the filter strings
StartsWithAFilter(name, fs) ==
    \E i \in 1..Len(fs) : StartsWith(Lower(name), Lower(fs[i]))

\* the file names a call returned
ReturnedNames ==
    IF call.op = "none" THEN {}
    ELSE IF call.op = "per_prefix"
    THEN {call.res[i][2][1] : i \in 1..Len(call.res)} \ {None}
    ELSE {call.res[1]} \ {None}

\* C1: with no name filters get_latest_file_info returns (None, None) when
\* the listing has no regular file, and otherwise the name and time stamp
\* of a regular file that no regular file of the listing is newer than; a
\* directory is never returned.
C1_LatestOverall ==
    (call.op = "latest" /\ call.filters = <<>>) =>
        /\ BaseRegs = <<>> => call.res = NoneInfo
        /\ BaseRegs # <<>> => IsLatestOf(call.res, BaseRegs)
        /\ \A i \in 1..Len(tree.base) :
               IsDir(tree.base[i]) => call.res[1] # tree.base[i].filename

\* C1 witness: a directory newer than the newest regular file is passed
\* over and the regular file is returned.
C1_Witness ==
    /\ call.op = "latest" /\ call.filters = <<>>
    /\ call.res # NoneInfo
    /\ Len(BaseRegs) = 1
    /\ \E i \in 1..Len(tree.base) :
           /\ IsDir(tree.base[i])
           /\ tree.base[i].st_mtime > BaseRegs[1].st_mtime

\* C2 as stated: with a non-empty filter list every returned file name
\* starts, ignoring case, with one of the filters, also when the file was
\* found through the subfolder fallback.
C2_Original ==
    call.filters # <<>> =>
        \A nm \in ReturnedNames : StartsWithAFilter(nm, call.filters)

\* nm is a regular file directly inside a subdirectory of the base folder
\* whose name starts, ignoring case, with one of the filters
InMatchingSubfolder(nm, fs) ==
    \E i \in 1..Len(tree.base) :
        /\ IsDir(tree.base[i])
        /\ StartsWithAFilter(tree.base[i].filename, fs)
        /\ \E j \in 1..Len(tree.sub[tree.base[i].filename]) :
               /\ IsReg(tree.sub[tree.base[i].filename][j])
               /\ tree.sub[tree.base[i].filename][j].filename = nm

\* C2 amended: with a non-empty filter list every returned file name starts,
\* ignoring case, with one of the filters, or names a regular file directly
\* inside a base subdirectory whose name starts with one of the filters
\* (the subfolder fallback does not filter the files inside the subfolder).
C2_FilterOrSubfolder ==
    call.filters # <<>> =>
        \A nm \in ReturnedNames :
            \/ StartsWithAFilter(nm, call.filters)
            \/ InMatchingSubfolder(nm, call.filters)

\* C2 witness: a filtered call returned a base file that matches a filter
\* although a newer regular file that matches no filter is listed.
C2_Witness ==
    /\ call.op \in {"latest", "on_date", "before_date", "per_prefix"}
    /\ LoweredFilters(call.filters) # <<>>
    /\ \E nm \in ReturnedNames :
           /\ StartsWithAFilter(nm, call.filters)
           /\ \E i, j \in 1..Len(BaseRegs) :
                  /\ BaseRegs[i].filename = nm
                  /\ ~StartsWithAFilter(BaseRegs[j].filename, call.filters)
                  /\ BaseRegs[j].st_mtime > BaseRegs[i].st_mtime

\* the candidates whose local calendar date is d / is before d
DatedOn(d) ==
    SelectSeq(Candidates, LAMBDA f : ToLocalDate(f.st_mtime) = d)
DatedBefore(d) ==
    SelectSeq(Candidates, LAMBDA f : ToLocalDate(f.st_mtime) < d)

\* C3: get_latest_file_info_on_date(d) returns (None, None) when no
\* candidate is dated d, also when candidates of other dates exist, and
\* otherwise the newest of the candidates dated d.
C3_OnDate ==
    call.op = "on_date" =>
        /\ DatedOn(call.date) = <<>> => call.res = NoneInfo
        /\ DatedOn(call.date) # <<>> =>
               /\ IsLatestOf(call.res, DatedOn(call.date))
               /\ call.res[2][1] = call.date

\* C3 witness: candidates exist on another date only and nothing is
\* returned.
C3_Witness ==
    /\ call.op = "on_date"
    /\ Candidates # <<>>
    /\ DatedOn(call.date) = <<>>
    /\ call.res = NoneInfo

\* C4: get_latest_file_info_before_date(d) never returns a file dated on or
\* after d; it returns the newest candidate dated before d when there is
\* one and (None, None) otherwise.
C4_BeforeDate ==
    call.op = "before_date" =>
        /\ call.res # NoneInfo => call.res[2][1] < call.date
        /\ DatedBefore(call.date) = <<>> => call.res = NoneInfo
        /\ DatedBefore(call.date) # <<>> =>
               IsLatestOf(call.res, DatedBefore(call.date))

\* C4 witness: a candidate dated on or after d is newer than the one
\* returned.
C4_Witness ==
    /\ call.op = "before_date"
    /\ call.res # NoneInfo
    /\ \E i \in 1..Len(Candidates) :
           ToLocalDate(Candidates[i].st_mtime) >= call.date

(***************************************************************************)
(* Properties of a run (checked under Spec).                               *)
(***************************************************************************)
Configs == cfgfile.configs
Accounts == 1..Len(Configs)

Count(seq, Test(_)) == Len(SelectSeq(seq, Test))

\* collect_latest_file_details has returned: results is what it returned
Collected == pc \in {"report", "returned"}

\* the run is one of check_date_range_files.py
CheckRun ==
    pc \in {"check", "check_dates", "check_account", "check_folders",
            "check_finally", "report_dates", "check_report", "check_done",
            "check_returned", "check_crashed"}

\* check_files_for_date_range has returned: results is what it returned
Checked ==
    pc \in {"report_dates", "check_report", "check_returned", "check_done"}

\* the events of the current call of collect_latest_file_details
PassStart ==
    IF \E i \in 1..Len(log) : log[i].ev = "collect"
    THEN CHOOSE i \in 1..Len(log) :
             /\ log[i].ev = "collect"
             /\ \A j \in (i + 1)..Len(log) : log[j].ev # "collect"
    ELSE 0
PassLog == SubSeq(log, PassStart + 1, Len(log))

Happened(events, ev, a) ==
    \E i \in 1..Len(events) : events[i].ev = ev /\ events[i].account = a

\* the rows of account a in the current results
RowsOf(a) == SelectSeq(results, LAMBDA r : r.account = Configs[a].name)

\* the rows of all the main workbooks written so far
RECURSIVE RowsOfBooks(_)
RowsOfBooks(books) ==
    IF books = <<>> THEN <<>>
    ELSE (IF Head(books).kind = "main" THEN Head(books).rows ELSE <<>>)
         \o RowsOfBooks(Tail(books))

ConnectionErrorRowsWritten(a) ==
    Count(RowsOfBooks(reports),
          LAMBDA r : r.account = Configs[a].name /\ r.date = ConnectionError)

FailedConnects(a) ==
    Count(log, LAMBDA e : e.ev = "connect_failed" /\ e.account = a)

\* the connection-error rows of account a in the current results
ConnectionErrorRowsOf(a) ==
    SelectSeq(RowsOf(a), LAMBDA r : r.date = ConnectionError)

\* the number of dates from start to end
DaysOfRange ==
    IF args.start_date <= args.end_date
    THEN args.end_date - args.start_date + 1
    ELSE 0

\* the dates from start to end, in ascending order
RangeDates == [i \in 1..DaysOfRange |-> args.start_date + i - 1]

\* C6: a failed connect() yields one error row for every configured
\* (folder, date) pair of the account, F x D rows: in main.py, where each
\* failed connect() stands for one date, F rows for each of them in the
\* workbooks of a finished run; in check_date_range_files.py, F x D rows
\* in the rows returned for a range of D dates.
C6_Original ==
    /\ pc = "done" =>
           \A a \in Accounts :
               ConnectionErrorRowsWritten(a) =
                   Len(Configs[a].folders) * FailedConnects(a)
    /\ Checked =>
           \A a \in Accounts :
               Happened(log, "connect_failed", a) =>
                   Len(ConnectionErrorRowsOf(a)) =
                       Len(Configs[a].folders) * DaysOfRange

\* C7: collect_latest_file_details returns normally whatever connections
\* and listings fail (the run ends with an exception only for a missing
\* credentials file or a malformed date), and every account that passes the
\* account filter and is not skip-listed is attempted once and has at least
\* one row, whatever failed before it.
C7_PartialFailureTolerance ==
    /\ pc = "crashed" => (~cfgfile.exists \/ DateArgRaises)
    /\ Collected =>
           \A a \in Accounts :
               AccountSelected(Configs[a]) =>
                   /\ Count(PassLog,
                            LAMBDA e : /\ e.account = a
                                       /\ e.ev \in {"connect",
                                                    "connect_failed"}) = 1
                   /\ RowsOf(a) # <<>>

\* C7 witness: the first account failed to connect, a listing of the second
\* failed, and the second account has its rows.
C7_Witness ==
    /\ Collected
    /\ \E a, b \in Accounts :
           /\ a < b
           /\ Happened(PassLog, "connect_failed", a)
           /\ Happened(PassLog, "list_failed", b)
           /\ RowsOf(b) # <<>>

\* C8 as stated: when a listing call fails while a folder is processed, the
\* rows appended for the folder are exactly one error row, and the loop
\* goes on with the next folder.
C8_Original ==
    [][(pc = "folders" /\ failures' > failures) =>
           /\ results' = Append(results,
                                Row(Configs[ai].name, folders[fi].label,
                                    Dash, ListingError))
           /\ fi' = fi + 1
           /\ pc' \in {"folders", "finally"}]_vars

\* the folders of account a that the folder filter excludes
Excluded(a) ==
    SelectSeq(Configs[a].folders,
              LAMBDA f : ~MatchesFilter(f.label, args.folder))

Listed(events, a, label) ==
    \E i \in 1..Len(events) :
        /\ events[i].ev \in {"list", "list_failed"}
        /\ events[i].account = a
        /\ events[i].folder = label

\* C9 as stated: every configured folder that the folder filter excludes
\* has a "Folder not configured" row and is never listed, also when other
\* folders of the account match the filter.
C9_Original ==
    Collected =>
        \A a \in Accounts :
            Happened(PassLog, "connect", a) =>
                \A i \in 1..Len(Excluded(a)) :
                    /\ \E j \in 1..Len(RowsOf(a)) :
                           RowsOf(a)[j].date = FolderNotConfigured
                    /\ ~Listed(PassLog, a, Excluded(a)[i].label)

\* C9 amended: an excluded folder is never listed; when the filter excludes
\* every folder of a connected account the account gets exactly one row,
\* "Folder not configured" with the filter text as folder, and when some
\* folder matches, the excluded folders get no row at all.
C9_FolderNotConfigured ==
    Collected =>
        \A a \in Accounts :
            Happened(PassLog, "connect", a) =>
                /\ \A i \in 1..Len(Excluded(a)) :
                       /\ ~Listed(PassLog, a, Excluded(a)[i].label)
                       /\ \A j \in 1..Len(RowsOf(a)) :
                              RowsOf(a)[j].folder # Excluded(a)[i].label
                /\ Len(Excluded(a)) = Len(Configs[a].folders) =>
                       RowsOf(a) = <<Row(Configs[a].name, args.folder, Dash,
                                         FolderNotConfigured)>>
                /\ Len(Excluded(a)) < Len(Configs[a].folders) =>
                       \A j \in 1..Len(RowsOf(a)) :
                           RowsOf(a)[j].date # FolderNotConfigured

\* C9 witness: in one call an account has a folder kept and a folder
\* excluded, and another account has every folder excluded.
C9_Witness ==
    /\ Collected
    /\ \E a, b \in Accounts :
           /\ Happened(PassLog, "connect", a)
           /\ Happened(PassLog, "connect", b)
           /\ Excluded(a) # <<>>
           /\ Len(Excluded(a)) < Len(Configs[a].folders)
           /\ Len(Excluded(b)) = Len(Configs[b].folders)
           /\ RowsOf(b) # <<>>

\* the rows of account a for folder f: its label, or its label and a prefix
\* ("label - prefix" in main.py, "label (prefix)" in the date range check)
RowsForFolder(a, f) ==
    SelectSeq(RowsOf(a),
              LAMBDA r : \/ r.folder = f.label
                         \/ StartsWith(r.folder, f.label \o <<" ", "-", " ">>)
                         \/ StartsWith(r.folder, f.label \o <<" ", "(">>))

\* a folder of a connected account that was processed with no failing
\* listing call and whose listing is empty (or whose path is missing)
EmptyFolderProcessed(a, f) ==
    /\ Happened(PassLog, "connect", a)
    /\ MatchesFilter(f.label, args.folder)
    /\ Remote[f.path].base = <<>>
    /\ \A i \in 1..Len(PassLog) :
           (PassLog[i].account = a /\ PassLog[i].folder = f.label) =>
               PassLog[i].ev # "list_failed"

\* C10: a folder whose listing is empty, processed with no failing listing
\* call, has a row with file name "-" and time stamp "No file found".
C10_Original ==
    Collected =>
        \A a \in Accounts :
            \A i \in 1..Len(Configs[a].folders) :
                EmptyFolderProcessed(a, Configs[a].folders[i]) =>
                    \E j \in 1..Len(RowsForFolder(a, Configs[a].folders[i])) :
                        LET r == RowsForFolder(a, Configs[a].folders[i])[j]
                        IN r.name = Dash /\ r.date = <<"No file found">>

\* C11 as stated (and as test_handles_empty_folder asserts): called with
\* its default policy flags, collect_latest_file_details gives a folder
\* without filters whose listing is empty a row with file name "-" and
\* date "Manual".
C11_Original ==
    pc = "returned" =>
        \A a \in Accounts :
            \A i \in 1..Len(Configs[a].folders) :
                (/\ EmptyFolderProcessed(a, Configs[a].folders[i])
                 /\ Configs[a].folders[i].filters = <<>>) =>
                    \E j \in 1..Len(RowsForFolder(a, Configs[a].folders[i])) :
                        LET r == RowsForFolder(a, Configs[a].folders[i])[j]
                        IN r.name = Dash /\ r.date = <<"Manual">>

(***************************************************************************)
(* Subfolder fallback and per-prefix results (checked under SpecSel).      *)
(***************************************************************************)
\* the regular files of the base listing that start with one of fs
BaseMatching(fs) ==
    SelectSeq(BaseRegs, LAMBDA e : StartsWithAFilter(e.filename, fs))

\* the directories of the base listing that start with one of fs
DirsMatching(fs) ==
    SelectSeq(SelectSeq(tree.base, IsDir),
              LAMBDA e : StartsWithAFilter(e.filename, fs))

\* the regular files directly inside the directories ds
RECURSIVE RegsInside(_)
RegsInside(ds) ==
    IF ds = <<>> THEN <<>>
    ELSE SelectSeq(tree.sub[Head(ds).filename], IsReg)
         \o RegsInside(Tail(ds))

\* what the fallback rule selects for the filters fs: the newest base file
\* that matches, and only when there is none the newest file directly
\* inside a matching subdirectory
FallbackRule(info, fs) ==
    IF BaseMatching(fs) # <<>> THEN IsLatestOf(info, BaseMatching(fs))
    ELSE IF RegsInside(DirsMatching(fs)) # <<>>
    THEN IsLatestOf(info, RegsInside(DirsMatching(fs)))
    ELSE info = NoneInfo

\* the listing calls the rule allows for the filters fs: the base folder,
\* and each matching subdirectory once when no base file matches
ListingsFor(fs) ==
    1 + (IF BaseMatching(fs) = <<>> THEN Len(DirsMatching(fs)) ELSE 0)

RECURSIVE ListingsForEach(_)
ListingsForEach(ps) ==
    IF ps = <<>> THEN 0
    ELSE ListingsFor(<<Head(ps)>>) + ListingsForEach(Tail(ps))

\* C12: with filters given and no date, what is selected for a filter list
\* (get_latest_file_info) or for each prefix (get_latest_files_per_prefix)
\* is the newest matching regular file of the base folder, and when no base
\* file matches, the newest regular file directly inside the base
\* subdirectories whose name starts with the filter; the subdirectories are
\* listed only in that case, once each, and nothing below them is listed.
C12_SubfolderFallback ==
    /\ (call.op = "latest" /\ LoweredFilters(call.filters) # <<>>) =>
           /\ FallbackRule(call.res, LoweredFilters(call.filters))
           /\ call.n = ListingsFor(LoweredFilters(call.filters))
    /\ (call.op = "per_prefix" /\ call.date = NoDate) =>
           /\ \A i \in 1..Len(call.res) :
                  FallbackRule(call.res[i][2], <<call.res[i][1]>>)
           /\ call.n = ListingsForEach(LoweredFilters(call.filters))

\* C12 witness: no base file starts with the prefix, a base subdirectory
\* does and holds two regular files, and the per-prefix result is the newer
\* of the two.
C12_Witness ==
    /\ call.op = "per_prefix"
    /\ call.date = NoDate
    /\ \E i \in 1..Len(call.res) :
           LET p == <<call.res[i][1]>>
           IN /\ BaseRegs # <<>>
              /\ BaseMatching(p) = <<>>
              /\ Len(RegsInside(DirsMatching(p))) = 2
              /\ call.res[i][2][1] # None
              /\ \E j \in 1..2 :
                     RegsInside(DirsMatching(p))[j].filename
                         # call.res[i][2][1]

\* the strings of ps without repetitions, in the order of first occurrence
RECURSIVE Distinct(_)
Distinct(ps) ==
    IF ps = <<>> THEN <<>>
    ELSE LET d == Distinct(SubSeq(ps, 1, Len(ps) - 1))
             last == ps[Len(ps)]
         IN IF \E i \in 1..Len(d) : d[i] = last THEN d ELSE Append(d, last)

\* what the selection returns for the prefix p alone, as a singleton filter
\* list, under the date of the last call
AloneFor(p) ==
    IF call.date = NoDate
    THEN GetLatestFileInfo(TRUE, tree, <<p>>, 0, {}).val
    ELSE GetLatestFileInfoOnDate(TRUE, tree, call.date, <<p>>, 0, {}).val

\* C13 as stated: get_latest_files_per_prefix returns one result for every
\* prefix of the list, keyed by the lower-cased prefix and equal to the
\* selection for that prefix alone, so as many results as prefixes.
C13_Original ==
    call.op = "per_prefix" =>
        /\ Len(call.res) = Len(call.filters)
        /\ \A i \in 1..Len(call.res) :
               /\ call.res[i][1] = Lower(call.filters[i])
               /\ call.res[i][2] = AloneFor(call.res[i][1])

\* C13 amended: get_latest_files_per_prefix returns one result for every
\* distinct non-empty lower-cased prefix, in the order of first occurrence,
\* keyed by the lower-cased prefix and equal to the selection for that
\* prefix alone; empty prefixes are dropped and prefixes that differ by
\* case only share one result.
C13_OnePerDistinctPrefix ==
    call.op = "per_prefix" =>
        LET ps == Distinct(LoweredFilters(call.filters))
        IN /\ Len(call.res) = Len(ps)
           /\ \A i \in 1..Len(call.res) :
                  /\ call.res[i][1] = ps[i]
                  /\ call.res[i][2] = AloneFor(ps[i])

\* C13 witness: two prefixes that differ by case only were given, and the
\* one result names a file.
C13_Witness ==
    /\ call.op = "per_prefix"
    /\ Len(call.filters) = 2
    /\ call.filters[1] # <<>> /\ call.filters[2] # <<>>
    /\ Len(call.res) = 1
    /\ call.res[1][2] # NoneInfo

(***************************************************************************)
(* Sessions, disconnects and the order of the calls (checked under Spec).  *)
(***************************************************************************)
IsConnectCall(e) == e.ev \in {"connect", "connect_failed"}

\* the connector of account ai is connected and not yet disconnected
ConnectorInUse ==
    pc \in {"folders", "finally", "check_folders", "check_finally"}

\* C14: at most one session is open on the servers at any time, it is the
\* session of the account being processed, and between the connect() of
\* one account and the next connect() the earlier client is closed, on
\* every path (rows found, connection failure, no matching folder, listing
\* error).
C14_OneSessionAtATime ==
    /\ Cardinality(sessions) <= 1
    /\ sessions \subseteq (IF ConnectorInUse THEN {ai} ELSE {})
    /\ \A i, j \in 1..Len(log) :
           (i < j /\ IsConnectCall(log[i]) /\ IsConnectCall(log[j])) =>
               \E k \in (i + 1)..(j - 1) :
                   /\ log[k].ev = "client_close"
                   /\ log[k].account = log[i].account

\* C14 witness: the second account of the configuration is connected after
\* the first was connected, had a listing fail, and was disconnected.
C14_Witness ==
    /\ pc = "folders"
    /\ ai = 2
    /\ sessions = {2}
    /\ Happened(PassLog, "connect", 1)
    /\ Happened(PassLog, "list_failed", 1)
    /\ Happened(PassLog, "client_close", 1)

\* the number of events ev of account a in the log
Calls(ev, a) == Count(log, LAMBDA e : e.ev = ev /\ e.account = a)

\* no connector is in use: every connector made so far is done with
NoConnectorInUse == ~ConnectorInUse

\* C15 as stated: for every account on which connect() was called,
\* disconnect() is called exactly once for that connector, and the session
\* and the client are each closed exactly once, also when connect() failed.
C15_Original ==
    NoConnectorInUse =>
        \A a \in Accounts :
            LET connects == Calls("connect", a) + Calls("connect_failed", a)
            IN /\ Calls("disconnect", a) = connects
               /\ Calls("client_close", a) = connects
               /\ Calls("sftp_close", a) = connects

\* C15 amended: disconnect() is called exactly once for every connector on
\* which connect() was called, and it closes the client exactly once; the
\* sftp session is closed exactly once when connect() succeeded and is
\* never closed (it was never opened) when connect() failed.  While a
\* connector is in use its disconnect() is still to come.
C15_DisconnectOnce ==
    \A a \in Accounts :
        LET connects == Calls("connect", a) + Calls("connect_failed", a)
            pending == IF ~NoConnectorInUse /\ a = ai THEN 1 ELSE 0
        IN /\ Calls("disconnect", a) = connects - pending
           /\ Calls("client_close", a) = connects - pending
           /\ Calls("sftp_close", a) = Calls("connect", a) - pending

\* C15 witness: a run in which one account failed to connect and another
\* connected and hit a listing error; both connectors were disconnected.
C15_Witness ==
    /\ pc = "done"
    /\ \E a, b \in Accounts :
           /\ Calls("connect_failed", a) = 1 /\ Calls("connect", a) = 0
           /\ Calls("disconnect", a) = 1
           /\ Calls("connect", b) = 1 /\ Calls("list_failed", b) = 1
           /\ Calls("sftp_close", b) = 1

IsRemoteCall(e) ==
    e.ev \in {"connect", "connect_failed", "list", "list_failed"}
IsWrite(e) == e.ev \in {"write_main", "write_errors", "write_daily"}

\* C16 as stated: within one run of main no connect or listing call
\* happens after the first report file has been written.
C16_Original ==
    \A i, j \in 1..Len(log) :
        (i < j /\ IsWrite(log[i])) => ~IsRemoteCall(log[j])

\* C16 amended: the reports of a date are written only after every account
\* has been visited for that date, and no connect or listing call follows a
\* written report unless the collection for the next date of a range has
\* started in between; with no date or a single date nothing remote
\* follows the first report.
C16_WriteAfterCollection ==
    /\ pc \in {"report", "report_dates", "check_report"} =>
           (ai > Len(Configs) /\ sessions = {})
    /\ \A i, j \in 1..Len(log) :
           (i < j /\ IsWrite(log[i]) /\ IsRemoteCall(log[j])) =>
               /\ ~CheckRun
               /\ Len(dates) > 1
               /\ \E k \in (i + 1)..(j - 1) : log[k].ev = "collect"
    /\ pc # "idle" =>
           Count(log, LAMBDA e : e.ev = "collect")
               <= (IF Len(dates) > 1 THEN Len(dates) ELSE 1)

\* C16 witness: a run over two dates has ended; the report of the first
\* date was written before the servers were called for the second.
C16_Witness ==
    /\ pc = "done"
    /\ Len(dates) = 2
    /\ \E i, j \in 1..Len(log) :
           i < j /\ IsWrite(log[i]) /\ log[j].ev = "list"

\* the place of a row's account in the loaded configuration
AccountOf(r) == CHOOSE a \in Accounts : Configs[a].name = r.account

\* the place of a row's folder among the folders of its account; 0 for the
\* rows that stand for the whole account (connection error, no folder left)
FolderOf(r) ==
    LET fs == Configs[AccountOf(r)].folders
        Is(i) == \/ r.folder = fs[i].label
                 \/ StartsWith(r.folder, fs[i].label \o <<" ", "-", " ">>)
                 \/ StartsWith(r.folder, fs[i].label \o <<" ", "(">>)
    IN IF \E i \in 1..Len(fs) : Is(i)
       THEN CHOOSE i \in 1..Len(fs) : Is(i)
       ELSE 0

\* the rows are in the order of the configuration
InConfigOrder(rows) ==
    \A i, j \in 1..Len(rows) :
        i < j =>
            /\ AccountOf(rows[i]) <= AccountOf(rows[j])
            /\ AccountOf(rows[i]) = AccountOf(rows[j]) =>
                   FolderOf(rows[i]) <= FolderOf(rows[j])

IsPrefixOf(s, t) == Len(s) <= Len(t) /\ SubSeq(t, 1, Len(s)) = s

\* C17: the rows of a call of collect_latest_file_details are in the
\* iteration order of the configuration, accounts first and folders within
\* an account, and while the call runs a row once appended keeps its place
\* and its content: every step appends to the list or leaves it alone.
C17_ConfigOrder ==
    /\ [](InConfigOrder(results))
    /\ [][pc # "collect" => IsPrefixOf(results, results')]_vars

\* C17 witness: the call returned rows of two accounts, the first account
\* with rows of two of its folders.
C17_Witness ==
    /\ Collected
    /\ \E i, j, k \in 1..Len(results) :
           /\ i < j /\ j < k
           /\ AccountOf(results[i]) = AccountOf(results[j])
           /\ FolderOf(results[i]) = 1 /\ FolderOf(results[j]) = 2
           /\ AccountOf(results[j]) < AccountOf(results[k])

\* a folder of account a that the current call has processed: the account
\* connected, the folder passes the folder filter, and its turn is over
FolderProcessed(a, f) ==
    /\ Collected
    /\ Happened(PassLog, "connect", a)
    /\ MatchesFilter(f.label, args.folder)

\* the folder ended in the except clause: its last row is the error row
EndedInError(a, f) ==
    \E j \in 1..Len(RowsForFolder(a, f)) :
        RowsForFolder(a, f)[j].date = ListingError

\* the rows of folder f of account a for the date d (date range check)
RowsForDay(a, f, d) == SelectSeq(RowsForFolder(a, f), LAMBDA r : r.day = d)

\* the number of rows a folder with the filters fs has when every prefix
\* given has its row
RowsWanted(fs) == IF fs = <<>> THEN 1 ELSE Len(fs)

\* the number of rows a folder with the filters fs gets: one, or one for
\* each distinct non-empty lower-cased prefix
RowsGiven(fs) ==
    IF fs = <<>> THEN 1 ELSE Len(Distinct(LoweredFilters(fs)))

\* C18 as stated: a folder whose processing ended without an error has
\* exactly one row for the date when it has no filters and exactly one row
\* for each prefix given when it has filters; in the date range check, for
\* each date of the range.
C18_Original ==
    \A a \in Accounts :
        \A i \in 1..Len(Configs[a].folders) :
            LET f == Configs[a].folders[i]
            IN /\ (Checked /\ Happened(log, "connect", a)) =>
                      \A k \in 1..DaysOfRange :
                          LET rs == RowsForDay(a, f, RangeDates[k])
                          IN (\A j \in 1..Len(rs) :
                                  rs[j].date # ListingError) =>
                                 Len(rs) = RowsWanted(f.filters)
               /\ (FolderProcessed(a, f) /\ ~EndedInError(a, f)) =>
                      Len(RowsForFolder(a, f)) = RowsWanted(f.filters)

\* C18 for check_date_range_files.py: every folder of a connected account
\* has, for the date d of the range, exactly one row when it has no filters
\* and exactly one row for each distinct lower-cased prefix (labelled with
\* the folder and the lower-cased prefix) when it has filters, whether a
\* file was found or not; when the check of the date raised, the one error
\* row.
OneRowPerDay(a, f, d) ==
    LET rs == RowsForDay(a, f, d)
    IN IF \E j \in 1..Len(rs) : rs[j].date = ListingError
       THEN rs = <<DayRow(Configs[a].name, f.label, d, Dash, ListingError)>>
       ELSE IF f.filters = <<>>
       THEN Len(rs) = 1 /\ rs[1].folder = f.label
       ELSE /\ Len(rs) = RowsGiven(f.filters)
            /\ \A k \in 1..Len(f.filters) :
                   Count(rs, LAMBDA r :
                           r.folder = f.label \o <<" ", "(">>
                                        \o Lower(f.filters[k]) \o <<")">>)
                       = 1
            /\ \A j \in 1..Len(rs) :
                   \E k \in 1..Len(f.filters) :
                       rs[j].folder = f.label \o <<" ", "(">>
                                        \o Lower(f.filters[k]) \o <<")">>

\* C18, amended: for the date of the call, every processed folder without
\* filters has exactly one row, and every processed folder with filters
\* whose processing did not end in an error has exactly one row for each
\* distinct lower-cased prefix (the row labelled with the folder and the
\* lower-cased prefix) and no other row, whether a file of the date, a
\* fallback file or nothing was found: prefixes that differ only by case
\* share one row, so the rows can be fewer than the prefixes given.  (A
\* folder with filters that ended in an error has its error row last and
\* at most one row for each distinct lower-cased prefix.)  In the date
\* range check the same holds of every folder of a connected account for
\* each date of the range, and no row has another date.
C18_OneRowPerFolderOrPrefix ==
    \A a \in Accounts :
        \A i \in 1..Len(Configs[a].folders) :
            LET f == Configs[a].folders[i]
                rs == RowsForFolder(a, f)
            IN
            /\ (Checked /\ Happened(log, "connect", a)) =>
                   /\ \A k \in 1..DaysOfRange :
                          OneRowPerDay(a, f, RangeDates[k])
                   /\ \A j \in 1..Len(rs) :
                          \E k \in 1..DaysOfRange : rs[j].day = RangeDates[k]
            /\ FolderProcessed(a, f) =>
                   /\ f.filters = <<>> =>
                          Len(rs) = 1 /\ rs[1].folder = f.label
                   /\ (f.filters # <<>> /\ ~EndedInError(a, f)) =>
                          /\ Len(rs) = RowsGiven(f.filters)
                          /\ \A k \in 1..Len(f.filters) :
                                 Count(rs, LAMBDA r :
                                         r.folder =
                                           PrefixLabel(f.label,
                                                       Lower(f.filters[k])))
                                     = 1
                          /\ \A j \in 1..Len(rs) :
                                 \E k \in 1..Len(f.filters) :
                                     rs[j].folder =
                                         PrefixLabel(f.label,
                                                     Lower(f.filters[k]))
                   /\ (f.filters # <<>> /\ EndedInError(a, f)) =>
                          /\ rs[Len(rs)].folder = f.label
                          /\ \A k \in 1..Len(f.filters) :
                                 Count(rs, LAMBDA r :
                                         r.folder =
                                           PrefixLabel(f.label,
                                                       Lower(f.filters[k])))
                                     <= 1

\* C18 witness: one call gave a folder with two prefixes that differ only
\* by case its one row and a folder without filters its one row, and no
\* listing call of the first folder failed.
C18_Witness ==
    /\ Collected
    /\ \E a \in Accounts :
           \E i, j \in 1..Len(Configs[a].folders) :
               LET f == Configs[a].folders[i]
                   g == Configs[a].folders[j]
               IN /\ FolderProcessed(a, f) /\ FolderProcessed(a, g)
                  /\ Len(f.filters) = 2
                  /\ RowsGiven(f.filters) = 1
                  /\ Len(RowsForFolder(a, f)) = 1
                  /\ ~EndedInError(a, f)
                  /\ g.filters = <<>>
                  /\ Len(RowsForFolder(a, g)) = 1

\* the regular files of the tree t, in its base folder and one level below
RegsOfTree(t) ==
    {t.base[i] : i \in {k \in 1..Len(t.base) : IsReg(t.base[k])}}
    \cup UNION {{t.sub[nm][i] :
                   i \in {k \in 1..Len(t.sub[nm]) : IsReg(t.sub[nm][k])}} :
                nm \in DOMAIN t.sub}

\* a row that names a file of its folder with that file's time stamp
IsFileRow(r) ==
    /\ Len(r.date) = 2
    /\ r.name # Dash
    /\ FolderOf(r) # 0
    /\ \E e \in RegsOfTree(
                  Remote[Configs[AccountOf(r)].folders[FolderOf(r)].path]) :
           e.filename = r.name /\ FormatTs(e.st_mtime) = r.date

\* the placeholder row of a folder or prefix where nothing was found: "-"
\* for the date, and for the name "-" in main.py and "No file found" in the
\* date range check
IsPlaceholderRow(r) ==
    /\ Len(r.date) = 1
    /\ r.date = Dash
    /\ r.name = (IF "day" \in DOMAIN r THEN NoFileFound ELSE Dash)

\* a row that carries an error text in place of the time stamp
IsErrorTextRow(r) ==
    /\ Len(r.date) = 1
    /\ r.name = Dash
    /\ r.date \in {ListingError, ConnectionError, FolderNotConfigured}

KindsOf(r) ==
    (IF IsFileRow(r) THEN {"file"} ELSE {})
    \cup (IF IsPlaceholderRow(r) THEN {"placeholder"} ELSE {})
    \cup (IF IsErrorTextRow(r) THEN {"error"} ELSE {})

\* C19: every row appended to the results, and every row written to a
\* workbook of main.py, is of exactly one kind: the name of a file with
\* that file's time stamp, the placeholder ("-" or "No file found" with
\* "-"), or "-" with an error text; a file name never comes with a
\* placeholder or an error text, nor the placeholder name with a time
\* stamp.  (The workbooks of the date range check hold no file names.)
C19_RowKinds ==
    /\ \A i \in 1..Len(results) : Cardinality(KindsOf(results[i])) = 1
    /\ \A b \in 1..Len(reports) :
           reports[b].kind # "daily" =>
               \A i \in 1..Len(reports[b].rows) :
                   Cardinality(KindsOf(reports[b].rows[i])) = 1

\* C19 witness: one call returned a file row, a placeholder row and an
\* error row.
C19_Witness ==
    /\ Collected
    /\ \E i, j, k \in 1..Len(results) :
           /\ IsFileRow(results[i])
           /\ IsPlaceholderRow(results[j])
           /\ IsErrorTextRow(results[k])

\* no listing call failed while folder f of account a was processed
NoListingFailed(a, f) ==
    \A i \in 1..Len(PassLog) :
        (PassLog[i].account = a /\ PassLog[i].folder = f.label) =>
            PassLog[i].ev # "list_failed"

\* the date the today-only policy of the current call refers to
ReferenceDate == IF cargs.on_date # NoDate THEN cargs.on_date ELSE Today

\* the today-only rule for the candidates c: the row r reports the newest
\* candidate dated on the reference date, and the newest of all (or the
\* placeholder) only when no candidate is dated on it
TodayOnlyRule(r, c) ==
    LET today == SelectSeq(c, LAMBDA e :
                                 ToLocalDate(e.st_mtime) = ReferenceDate)
    IN IF today # <<>> THEN IsLatestOf(<<r.name, r.date>>, today)
       ELSE IF c # <<>> THEN IsLatestOf(<<r.name, r.date>>, c)
       ELSE r.name = Dash /\ r.date = Dash

\* C20 as stated: under the today-only policy every folder, with or
\* without filters and with or without --date, reports the newest candidate
\* dated on the reference date when there is one, and the newest overall
\* only when there is none.
C20_Original ==
    (Collected /\ cargs.today_only) =>
        \A a \in Accounts :
            \A i \in 1..Len(Configs[a].folders) :
                LET f == Configs[a].folders[i]
                    rs == RowsForFolder(a, f)
                    t == Remote[f.path]
                IN (FolderProcessed(a, f) /\ NoListingFailed(a, f)) =>
                       IF f.filters = <<>>
                       THEN \A j \in 1..Len(rs) :
                                TodayOnlyRule(
                                    rs[j],
                                    CollectCandidateFiles(TRUE, t, <<>>,
                                                          0, {}).val)
                       ELSE \A k \in 1..Len(f.filters) :
                                \A j \in 1..Len(rs) :
                                    rs[j].folder =
                                        PrefixLabel(f.label,
                                                    Lower(f.filters[k])) =>
                                        TodayOnlyRule(
                                            rs[j],
                                            CollectCandidateFiles(
                                                TRUE, t,
                                                <<Lower(f.filters[k])>>,
                                                0, {}).val)

(***************************************************************************)
(* The previous-day policy, the date arguments and the reports (checked    *)
(* under Spec).                                                            *)
(***************************************************************************)
\* the previous-day rule for the candidates c: when a candidate is dated
\* before the reference date, the row r reports the newest such candidate
PreviousDayRule(r, c) ==
    LET before == SelectSeq(c, LAMBDA e :
                                  ToLocalDate(e.st_mtime) < ReferenceDate)
    IN before # <<>> =>
           /\ IsLatestOf(<<r.name, r.date>>, before)
           /\ r.date[1] < ReferenceDate

\* C21 as stated: under the previous-day policy every folder, with or
\* without filters, reports the newest candidate dated strictly before the
\* reference date when there is one, and never a file dated on or after it.
C21_Original ==
    (Collected /\ cargs.previous_day /\ ~cargs.today_only) =>
        \A a \in Accounts :
            \A i \in 1..Len(Configs[a].folders) :
                LET f == Configs[a].folders[i]
                    rs == RowsForFolder(a, f)
                    t == Remote[f.path]
                IN (FolderProcessed(a, f) /\ NoListingFailed(a, f)) =>
                       IF f.filters = <<>>
                       THEN \A j \in 1..Len(rs) :
                                PreviousDayRule(
                                    rs[j],
                                    CollectCandidateFiles(TRUE, t, <<>>,
                                                          0, {}).val)
                       ELSE \A k \in 1..Len(f.filters) :
                                \A j \in 1..Len(rs) :
                                    rs[j].folder =
                                        PrefixLabel(f.label,
                                                    Lower(f.filters[k])) =>
                                        PreviousDayRule(
                                            rs[j],
                                            CollectCandidateFiles(
                                                TRUE, t,
                                                <<Lower(f.filters[k])>>,
                                                0, {}).val)

\* exactly one of --start-date and --end-date was given, and no --date
OneRangeEndGiven ==
    /\ args.date = NoDate
    /\ (args.start_date = NoDate) # (args.end_date = NoDate)

\* C22 as stated: a date range needs both --start-date and --end-date;
\* with exactly one of them and no --date, main makes no collection and
\* writes no report.
C22_Original ==
    OneRangeEndGiven =>
        /\ Calls("collect", 0) = 0
        /\ reports = <<>>

\* main.py: --start-date and --end-date were both given and well-formed,
\* no --date
IsRange ==
    /\ ~CheckRun
    /\ args.date = NoDate
    /\ args.start_date \notin {NoDate, BadDate}
    /\ args.end_date \notin {NoDate, BadDate}

\* the number of collection passes started so far
Passes == Calls("collect", 0)

\* the date range check has listed its dates
DatesListed ==
    pc \in {"check_account", "check_folders", "check_finally",
            "check_report", "check_done", "check_returned"}

\* a loop that lists the dates from lo to hi is at one of its turns: the
\* dates listed so far are lo, lo + 1, ..., cur - 1 and cur has not gone
\* past hi + 1
ListedUpTo(lo, hi) ==
    /\ cur \in lo..(hi + 1)
    /\ dates = [i \in 1..(cur - lo) |-> lo + i - 1]

\* C23, the three loops `while current <= end`: each turn finds the dates
\* before cur listed in ascending order, each once
EnumerationInOrder ==
    /\ pc = "dates" => ListedUpTo(RangeStart, RangeEnd)
    /\ pc \in {"check_dates", "report_dates"} =>
           ListedUpTo(args.start_date,
                      IF args.start_date <= args.end_date
                      THEN args.end_date ELSE args.start_date - 1)

\* one of the loops that list the dates is running or about to start
Enumerating ==
    \/ IsRange /\ pc = "main"
    \/ pc = "check" /\ cfgfile.exists
    \/ pc \in {"dates", "check_dates", "report_dates"}

\* C23 for main.py: once the loop has ended the dates are start, ...,
\* end, and they stay so
MainDatesListed ==
    (IsRange /\ pc \in {"collect", "account", "folders", "finally",
                        "report", "done"}) =>
        /\ args.start_date <= args.end_date
        /\ dates = RangeDates

\* C23 for check_date_range_files.py: the dates listed are start, start+1,
\* ..., end (none when start > end); the rows of a folder come in ascending
\* order of their dates; every folder of a connected account has rows for
\* each date of the range; and with no date no listing call is made and no
\* row appended.
CheckedEachDate ==
    /\ DatesListed => dates = RangeDates
    /\ (DatesListed \/ pc = "report_dates") =>
        /\ \A i, j \in 1..Len(results) :
               (/\ i < j
                /\ results[i].account = results[j].account
                /\ FolderOf(results[i]) = FolderOf(results[j])) =>
                   results[i].day <= results[j].day
        /\ Checked =>
               \A a \in Accounts :
                   Happened(log, "connect", a) =>
                       \A i \in 1..Len(Configs[a].folders) :
                           \A k \in 1..DaysOfRange :
                               RowsForDay(a, Configs[a].folders[i],
                                          RangeDates[k]) # <<>>
        /\ DaysOfRange = 0 =>
               /\ results = <<>>
               /\ \A i \in 1..Len(log) :
                      log[i].ev \notin {"list", "list_failed"}

\* C23: for a date range of main.py with start <= end whose config file
\* loads, the k-th collection pass is made for the date start + k - 1, no
\* pass is made for a date after end, and a run that ends has made exactly
\* end - start + 1 passes (each date of the range once, in ascending
\* order); with start > end no pass is made.  The date range check visits
\* its dates as CheckedEachDate says.  The loops that list the dates take
\* the dates one by one in ascending order (EnumerationInOrder), a loop is
\* left only for what follows it (main's for the first pass,
\* check_files_for_date_range's for the first account, the one of the
\* check's main for the workbooks), and each of them ends: a run that is
\* about to list its dates, or is listing them, gets past the loop (or
\* main returns because start is after end).  Checked under SpecLive.
C23_OnePassPerDate ==
    /\ [][(IsRange /\ Passes' = Passes + 1) =>
             /\ args.start_date <= args.end_date
             /\ cargs'.on_date = args.start_date + Passes
             /\ cargs'.on_date <= args.end_date]_vars
    /\ []((IsRange /\ pc = "done") =>
             Passes = args.end_date - args.start_date + 1)
    /\ []((IsRange /\ args.start_date > args.end_date) => Passes = 0)
    /\ []CheckedEachDate
    /\ []EnumerationInOrder
    /\ []MainDatesListed
    /\ [][/\ (IsRange /\ pc = "main" /\ pc' # pc) =>
                 pc' \in {"dates", "aborted"}
          /\ (pc = "dates" /\ pc' # pc) => pc' = "collect"
          /\ (pc = "check" /\ cfgfile.exists /\ pc' # pc) =>
                 pc' = "check_dates"
          /\ (pc = "check_dates" /\ pc' # pc) => pc' = "check_account"
          /\ (pc = "report_dates" /\ pc' # pc) =>
                 pc' \in {"check_done", "check_crashed"}]_vars
    /\ Enumerating ~> ~Enumerating

\* a range of two dates has been run to its end: the loop listed the two
\* dates and the second pass was made for the second date
C23_Witness ==
    /\ IsRange
    /\ args.start_date < args.end_date
    /\ pc = "done"
    /\ Len(dates) = 2
    /\ Passes = 2
    /\ cargs.on_date = args.end_date

\* no connect() and no listing call has been made
NoRemoteWork ==
    \A i \in 1..Len(log) :
        log[i].ev \notin {"connect", "connect_failed", "list", "list_failed"}

\* one of the date arguments is malformed
SomeDateMalformed ==
    BadDate \in {args.date, args.start_date, args.end_date}

\* C24: with a missing config file or a malformed date argument the run
\* ends with an error (it never ends normally) and no connect() or listing
\* call is made.
C24_Original ==
    (SomeDateMalformed \/ ~cfgfile.exists) =>
        /\ NoRemoteWork
        /\ pc \notin {"done", "aborted", "returned", "check_done",
                      "check_returned"}

\* event e is a connect() attempt or a listing call for account a
IsRemoteCallFor(e, a) ==
    /\ e.account = a
    /\ e.ev \in {"connect", "connect_failed", "list", "list_failed"}

\* C25 as stated: after a failed connect() for an account, no further
\* connect() and no listing call is made for it in the rest of the run,
\* the later dates of a date range included.
C25_Original ==
    \A i \in 1..Len(log) :
        log[i].ev = "connect_failed" =>
            \A j \in (i + 1)..Len(log) :
                ~IsRemoteCallFor(log[j], log[i].account)

\* C25, amended: after a failed connect() for an account, no further
\* connect() and no listing call is made for it in the rest of that
\* collection pass (a later one is made only after the next pass has
\* started), and the accounts after it in the config file that pass the
\* filters are still attempted in the pass.  The date range check makes
\* one pass for all its dates, so there the account is left out for the
\* rest of the run.
C25_SkippedForThePass ==
    /\ \A i \in 1..Len(log) :
           log[i].ev = "connect_failed" =>
               \A j \in (i + 1)..Len(log) :
                   IsRemoteCallFor(log[j], log[i].account) =>
                       /\ ~CheckRun
                       /\ \E k \in (i + 1)..(j - 1) : log[k].ev = "collect"
    /\ (Collected \/ Checked) =>
           \A a, b \in Accounts :
               (/\ a < b
                /\ Happened(PassLog, "connect_failed", a)
                /\ MatchesFilter(Configs[b].name, args.account)
                /\ \A s \in 1..Len(args.skip) :
                       ~MatchesFilter(Configs[b].name, args.skip[s])) =>
                   \E j \in 1..Len(PassLog) : IsRemoteCallFor(PassLog[j], b)

\* in the second pass of a date range a connect() is made for an account
\* whose connect() failed in the first pass, and in the first pass the
\* next account was listed after the failure
C25_Witness ==
    \E i, j, k, m \in 1..Len(log) :
        /\ i < j /\ j < k /\ k < m
        /\ log[i].ev = "connect_failed"
        /\ log[j].ev = "list" /\ log[j].account # log[i].account
        /\ log[k].ev = "collect"
        /\ IsRemoteCallFor(log[m], log[i].account)

\* the row is error-marked: its timestamp field is an error text, a
\* connection-error text or 'Folder not configured'
ErrorMarked(r) ==
    r.date \in {ListingError, ConnectionError, FolderNotConfigured}

\* the workbook written right after workbook b is the error workbook of
\* the same date
HasErrorBook(b) ==
    /\ b < Len(reports)
    /\ reports[b + 1].kind = "errors"
    /\ reports[b + 1].date = reports[b].date

\* C26 (main.py; the date range check writes no error report): for every
\* main report written, the error report of its date is
\* written if and only if one of its rows is error-marked, and it holds
\* exactly the error-marked rows of the main report in the same order; no
\* error report is written without its main report, and the main report
\* holds the rows collected.
C26_ErrorReport ==
    /\ \A b \in 1..Len(reports) :
           IF reports[b].kind = "main"
           THEN LET marked == SelectSeq(reports[b].rows, ErrorMarked)
                IN /\ HasErrorBook(b) <=> marked # <<>>
                   /\ HasErrorBook(b) => reports[b + 1].rows = marked
           ELSE reports[b].kind = "errors" =>
                    b > 1 /\ reports[b - 1].kind = "main"
    /\ (pc = "done" /\ results # <<>>) =>
           \E b \in 1..Len(reports) :
               /\ reports[b].kind = "main"
               /\ reports[b].rows = results
               /\ \A c \in (b + 1)..Len(reports) : reports[c].kind = "errors"

\* an error report was written that holds two of the rows of its main
\* report and leaves a file row out
C26_Witness ==
    \E b \in 1..Len(reports) :
        /\ reports[b].kind = "main"
        /\ HasErrorBook(b)
        /\ Len(reports[b + 1].rows) = 2
        /\ \E i \in 1..Len(reports[b].rows) :
               Len(reports[b].rows[i].date) = 2

\* the listing calls made for folder f of account a in the current pass
FolderCalls(a, f) ==
    SelectSeq(PassLog, LAMBDA e : /\ e.account = a
                                  /\ e.folder = f.label
                                  /\ e.ev \in {"list", "list_failed"})

\* a listing call of candidate collection or selection failed for the
\* folder.  With filters every call is one (base path, matching subfolder,
\* fallback lookup); without filters the first call is the selection and,
\* under a date policy, the second is the fallback lookup (a later one is
\* the diagnostic listing of main.py 217-244).
SelectionListingFailed(a, f) ==
    LET c == FolderCalls(a, f)
    IN IF f.filters # <<>>
       THEN \E i \in 1..Len(c) : c[i].ev = "list_failed"
       ELSE \/ Len(c) >= 1 /\ c[1].ev = "list_failed"
            \/ /\ cargs.today_only \/ cargs.previous_day
               /\ Len(c) >= 2
               /\ c[2].ev = "list_failed"

\* C27 as stated: a listing failure other than a missing path, at the base
\* path, in a matching subfolder or in the fallback lookup, ends as an error
\* row of the folder, never as a file row or a placeholder row alone.
C27_Original ==
    Collected =>
        \A a \in Accounts :
            \A i \in 1..Len(Configs[a].folders) :
                LET f == Configs[a].folders[i]
                IN (FolderProcessed(a, f) /\ SelectionListingFailed(a, f)) =>
                       EndedInError(a, f)

(***************************************************************************)
(* The accounts the loader returns (checked under SpecLoad).               *)
(***************************************************************************)
\* the account has the key and a non-empty value for it
HasValue(account, key) ==
    key \in DOMAIN account /\ account[key] # <<>>

\* C28 as stated: every account load_multiple_configs_from_file returns has
\* a non-empty host, username and password, a port, and at least one folder.
C28_Original ==
    loaded.done =>
        \A i \in 1..Len(loaded.configs) :
            LET account == loaded.configs[i]
            IN /\ HasValue(account, "host")
               /\ HasValue(account, "username")
               /\ HasValue(account, "password")
               /\ "port" \in DOMAIN account
               /\ account["folders"] # <<>>

(***************************************************************************)
(* Listing calls and sessions (checked under Spec).                        *)
(***************************************************************************)
\* event e opens, fails to open or closes the session of account a
IsSessionEvent(e, a) ==
    /\ e.account = a
    /\ e.ev \in {"connect", "connect_failed", "disconnect", "sftp_close",
                 "client_close"}

\* account a is named by the skip list
SkipListed(a) ==
    \E s \in 1..Len(args.skip) :
        Contains(Lower(Configs[a].name), Lower(args.skip[s]))

\* C29: every listing call is made for an account that passes the account
\* filter and is not skip-listed, after a connect() of that account that
\* succeeded and before any disconnect() that follows it: the last session
\* event of the account before the listing is the successful connect().
C29_ListingInsideSession ==
    \A j \in 1..Len(log) :
        log[j].ev \in {"list", "list_failed"} =>
            /\ log[j].account \in Accounts
            /\ args.account # None =>
                   Contains(Lower(Configs[log[j].account].name),
                            Lower(args.account))
            /\ ~SkipListed(log[j].account)
            /\ \E i \in 1..(j - 1) :
                   /\ log[i].ev = "connect"
                   /\ log[i].account = log[j].account
                   /\ \A k \in (i + 1)..(j - 1) :
                          ~IsSessionEvent(log[k], log[j].account)

\* with an account on the skip list, a folder of another account was
\* listed in the pass after the one in which its connect() had failed
C29_Witness ==
    /\ \E a \in Accounts : SkipListed(a)
    /\ \E i, j \in 1..Len(log) :
           /\ i < j
           /\ log[i].ev = "connect_failed"
           /\ log[j].ev = "list"
           /\ log[j].account = log[i].account

====
